---- MODULE Spec2Model ----
(***************************************************************************)
(* EcoMarket return assistant: the agent (intent detection, slot           *)
(* extraction, return workflow) of src/agent.py, the three tools of        *)
(* src/agent_tools.py and the application-wide agent of                    *)
(* src/streamlit_app.py.                                                   *)
(*                                                                         *)
(* Text is modelled character by character: a Python str is a sequence of  *)
(* one-character strings, so that substring tests (`p in q`), str.lower(), *)
(* str.strip() and the regular expressions act as they do in the code.     *)
(***************************************************************************)
EXTENDS Integers, Sequences, FiniteSets, TLC

(***************************************************************************)
(* Characters                                                              *)
(***************************************************************************)
Minusculas ==
  {"a","b","c","d","e","f","g","h","i","j","k","l","m","n","o","p","q","r",
   "s","t","u","v","w","x","y","z","á","é","í","ó","ú","ñ"}

Mayusculas ==
  {"A","B","C","D","E","F","G","H","I","J","K","L","M","N","O","P","Q","R",
   "S","T","U","V","W","X","Y","Z","Á","É","Í","Ó","Ú","Ñ"}

Digitos == {"0","1","2","3","4","5","6","7","8","9"}

Espacios == {" "}

\* str.lower() on one character
LowerChar(c) ==
  CASE c = "A" -> "a" [] c = "B" -> "b" [] c = "C" -> "c" [] c = "D" -> "d"
    [] c = "E" -> "e" [] c = "F" -> "f" [] c = "G" -> "g" [] c = "H" -> "h"
    [] c = "I" -> "i" [] c = "J" -> "j" [] c = "K" -> "k" [] c = "L" -> "l"
    [] c = "M" -> "m" [] c = "N" -> "n" [] c = "O" -> "o" [] c = "P" -> "p"
    [] c = "Q" -> "q" [] c = "R" -> "r" [] c = "S" -> "s" [] c = "T" -> "t"
    [] c = "U" -> "u" [] c = "V" -> "v" [] c = "W" -> "w" [] c = "X" -> "x"
    [] c = "Y" -> "y" [] c = "Z" -> "z" [] c = "Á" -> "á" [] c = "É" -> "é"
    [] c = "Í" -> "í" [] c = "Ó" -> "ó" [] c = "Ú" -> "ú" [] c = "Ñ" -> "ñ"
    [] OTHER -> c

\* str.lower()
Lower(s) == [i \in 1..Len(s) |-> LowerChar(s[i])]

\* `needle in hay` on Python strings: substring test
Contains(hay, needle) ==
  \E i \in 1..(Len(hay) - Len(needle) + 1) :
     SubSeq(hay, i, i + Len(needle) - 1) = needle

\* a literal of a re.IGNORECASE pattern matches at position i of s
LitAt(s, i, lit) ==
  /\ i >= 1
  /\ i + Len(lit) - 1 <= Len(s)
  /\ Lower(SubSeq(s, i, i + Len(lit) - 1)) = Lower(lit)

\* \w and \d of the re module
EsPalabra(c) == c \in Minusculas \cup Mayusculas \cup Digitos \cup {"_"}

EsDigito(c) == c \in Digitos

\* the class [A-Za-zÁ-úñÑ\s] of the product patterns
EsClaseProducto(c) == c \in Minusculas \cup Mayusculas \cup Espacios

\* str.strip()
RECURSIVE StripIzq(_)
StripIzq(s) ==
  IF s # << >> /\ Head(s) \in Espacios THEN StripIzq(Tail(s)) ELSE s

RECURSIVE StripDer(_)
StripDer(s) ==
  IF s # << >> /\ s[Len(s)] \in Espacios
    THEN StripDer(SubSeq(s, 1, Len(s) - 1))
    ELSE s

Strip(s) == StripDer(StripIzq(s))

(***************************************************************************)
(* Intent constants                                                        *)
(***************************************************************************)
INTENT_INFORMATIVA == "informativa"

INTENT_DEVOLUCION == "devolucion"

ACCIONES_EXPLICITAS ==
  << <<"q","u","i","e","r","o"," ","d","e","v","o","l","v","e","r">>,
     <<"d","e","s","e","o"," ","d","e","v","o","l","v","e","r">>,
     <<"n","e","c","e","s","i","t","o"," ","d","e","v","o","l","v","e","r">>,
     <<"i","n","i","c","i","a","r"," ","d","e","v","o","l","u","c","i","ó","n">>,
     <<"e","m","p","e","z","a","r"," ","d","e","v","o","l","u","c","i","ó","n">>,
     <<"c","o","m","e","n","z","a","r"," ","d","e","v","o","l","u","c","i","ó","n">>,
     <<"g","e","n","e","r","a","r"," ","e","t","i","q","u","e","t","a">>,
     <<"c","r","e","a","r"," ","e","t","i","q","u","e","t","a">>,
     <<"h","a","c","e","r"," ","d","e","v","o","l","u","c","i","ó","n">>,
     <<"h","a","c","e","r"," ","u","n","a"," ","d","e","v","o","l","u","c","i","ó","n">>,
     <<"s","o","l","i","c","i","t","a","r"," ","d","e","v","o","l","u","c","i","ó","n">>,
     <<"p","r","o","c","e","s","a","r"," ","d","e","v","o","l","u","c","i","ó","n">> >>

PALABRAS_INTERROGATIVAS ==
  << <<"c","u","á","n","t","o">>,
     <<"c","u","a","n","t","o">>,
     <<"c","u","á","n","t","o","s">>,
     <<"c","u","a","n","t","o","s">>,
     <<"c","u","á","n","d","o">>,
     <<"c","u","a","n","d","o">>,
     <<"c","ó","m","o">>,
     <<"c","o","m","o">>,
     <<"q","u","é">>,
     <<"q","u","e">>,
     <<"c","u","á","l">>,
     <<"c","u","a","l">>,
     <<"c","u","á","l","e","s">>,
     <<"c","u","a","l","e","s">>,
     <<"d","ó","n","d","e">>,
     <<"d","o","n","d","e">>,
     <<"p","o","r"," ","q","u","é">>,
     <<"p","o","r","q","u","e">>,
     <<"p","a","r","a"," ","q","u","é">> >>

PALABRAS_CONSULTA ==
  << <<"p","o","l","í","t","i","c","a">>,
     <<"p","o","l","í","t","i","c","a","s">>,
     <<"p","l","a","z","o">>,
     <<"t","i","e","m","p","o">>,
     <<"d","í","a","s">>,
     <<"r","e","q","u","i","s","i","t","o">>,
     <<"r","e","q","u","i","s","i","t","o","s">>,
     <<"c","o","n","d","i","c","i","ó","n">>,
     <<"c","o","n","d","i","c","i","o","n","e","s">>,
     <<"i","n","f","o","r","m","a","c","i","ó","n">>,
     <<"i","n","f","o">>,
     <<"e","x","p","l","i","c","a">>,
     <<"d","i","m","e">>,
     <<"c","u","é","n","t","a","m","e">>,
     <<"c","o","m","p","a","r","t","e">>,
     <<"m","u","e","s","t","r","a">> >>

(***************************************************************************)
(* Regular expressions of agent.py                                         *)
(***************************************************************************)
\* an absent value (Python None) where a str is expected: a sequence that is
\* no text, since none of its elements is a character
None == <<"None">>

\* Python truthiness of an Optional[str]: None and "" are falsy
Falsy(x) == x = None \/ x = << >>

\* \b at the gap before position i
Frontera(s, i) ==
  LET antes == i > 1 /\ EsPalabra(s[i - 1])
      despues == i <= Len(s) /\ EsPalabra(s[i])
  IN  antes # despues

MinDigitos == 5

MaxDigitos == 10

\* ORDER_ID_REGEX = \b(\d{5,10})\b matches n digits at position i
OrderIdEn(s, i, n) ==
  /\ i + n - 1 <= Len(s)
  /\ Frontera(s, i)
  /\ \A k \in i..(i + n - 1) : EsDigito(s[k])
  /\ Frontera(s, i + n)

\* the positions where ORDER_ID_REGEX matches
PosOrderId(s) ==
  {i \in 1..Len(s) : \E n \in MinDigitos..MaxDigitos : OrderIdEn(s, i, n)}

\* re.search(ORDER_ID_REGEX, s)
HayOrderId(s) == PosOrderId(s) # {}

Minimo(S) == CHOOSE x \in S : \A y \in S : x <= y

Maximo(S) == CHOOSE x \in S : \A y \in S : y <= x

\* the match at position i is greedy: the most digits that still match
OrderIdMasLargo(s, i) ==
  SubSeq(s, i, i + Maximo({n \in MinDigitos..MaxDigitos : OrderIdEn(s, i, n)}) - 1)

\* re.findall(ORDER_ID_REGEX, s)[0]: the leftmost match; << >> if none
PrimerOrderId(s) ==
  IF HayOrderId(s) THEN OrderIdMasLargo(s, Minimo(PosOrderId(s))) ELSE << >>

ARTICULOS ==
  << <<"e","l"," ">>, <<"l","a"," ">>, <<"l","o","s"," ">>, <<"l","a","s"," ">> >>

TERMINADORES ==
  << <<"d","e","l">>, <<"d","e">>, <<"p","e","d","i","d","o">> >>

\* \s+lit matches at position p
EspaciosLuego(s, p, lit) ==
  \E k \in 1..(Len(s) - p + 1) :
     /\ \A j \in p..(p + k - 1) : s[j] \in Espacios
     /\ LitAt(s, p + k, lit)

\* (?:\s+del|\s+de|\s+pedido|\.|$) matches at position p
FinGrupo(s, p) ==
  \/ \E k \in 1..Len(TERMINADORES) : EspaciosLuego(s, p, TERMINADORES[k])
  \/ (p <= Len(s) /\ s[p] = ".")
  \/ p = Len(s) + 1

\* ([A-Za-zÁ-úñÑ\s]+?)(?:...) with the group starting at g: the lengths
\* of the group that let the rest of the pattern match
LargosGrupo(s, g) ==
  {n \in 1..(Len(s) - g + 1) :
     /\ \A j \in g..(g + n - 1) : EsClaseProducto(s[j])
     /\ FinGrupo(s, g + n)}

HayGrupo(s, g) == LargosGrupo(s, g) # {}

\* the group is lazy: the shortest such length
Grupo(s, g) == SubSeq(s, g, g + Minimo(LargosGrupo(s, g)) - 1)

\* the ends of the articles that match at position a, in the order of the
\* alternation (?:el |la |los |las )
TrasArticulo(s, a) ==
  SelectSeq([k \in 1..Len(ARTICULOS) |->
               IF LitAt(s, a, ARTICULOS[k]) THEN a + Len(ARTICULOS[k]) ELSE 0],
            LAMBDA x : x # 0)

\* where the group may start once the article alternation was tried at a,
\* in the order the regex engine tries: after each article that matches,
\* then (when the alternation is optional) at a itself.
\* modo: "opcional" (?:el |la |los |las )?, "obligatorio" (?:el |...), "sin"
IniciosGrupo(s, a, modo) ==
  IF modo = "opcional" THEN Append(TrasArticulo(s, a), a)
  ELSE IF modo = "obligatorio" THEN TrasArticulo(s, a)
  ELSE <<a>>

\* the group at the first of the starts ini that gives a match; << >> if none
GrupoDe(s, ini) ==
  IF \E k \in 1..Len(ini) : HayGrupo(s, ini[k])
    THEN Grupo(s, ini[Minimo({k \in 1..Len(ini) : HayGrupo(s, ini[k])})])
    ELSE << >>

\* group(1) of the match that starts with the literal at i, << >> if none
GrupoEn(s, i, pre, modo) ==
  IF LitAt(s, i, pre)
    THEN GrupoDe(s, IniciosGrupo(s, i + Len(pre), modo))
    ELSE << >>

PosPatron(s, pre, modo) == {i \in 1..Len(s) : GrupoEn(s, i, pre, modo) # << >>}

\* re.search(pattern, s, re.IGNORECASE).group(1): leftmost match; << >> if none
BuscarPatron(s, pre, modo) ==
  IF PosPatron(s, pre, modo) = {} THEN << >>
  ELSE GrupoEn(s, Minimo(PosPatron(s, pre, modo)), pre, modo)

\* r'^([A-Za-zÁ-úñÑ\s]+?)$'
BuscarSolo(s) ==
  IF s # << >> /\ \A j \in 1..Len(s) : EsClaseProducto(s[j]) THEN s ELSE << >>

PRE_DEVOLVER == <<"d","e","v","o","l","v","e","r"," ">>

PRE_PRODUCTO == <<"p","r","o","d","u","c","t","o"," ">>

\* group(1) of each of the four product patterns, in the order of the list
GruposProducto(q) ==
  << BuscarPatron(q, PRE_DEVOLVER, "opcional"),
     BuscarPatron(q, PRE_PRODUCTO, "sin"),
     BuscarPatron(q, << >>, "obligatorio"),
     BuscarSolo(q) >>

MinLargoProducto == 3

\* candidate = m.group(1).strip(); if len(candidate) > 3
Candidatos(grupos) ==
  {k \in 1..Len(grupos) : Len(Strip(grupos[k])) > MinLargoProducto}

\* the product_id loop of _extraer_datos_pedido over the groups of the
\* patterns: the first candidate longer than 3 characters; None if none
ProductoDe(grupos) ==
  IF Candidatos(grupos) = {} THEN None
  ELSE Strip(grupos[Minimo(Candidatos(grupos))])

\* q = query.strip(), then the loop
ExtraerProducto(query) == ProductoDe(GruposProducto(Strip(query)))

(***************************************************************************)
(* 1. Intent detection                                                     *)
(***************************************************************************)
ContieneAlguna(q, lista) == \E k \in 1..Len(lista) : Contains(q, lista[k])

PUEDO == <<"p","u","e","d","o">>

SE_PUEDE == <<"s","e"," ","p","u","e","d","e">>

QUIERO == <<"q","u","i","e","r","o">>

\* _detectar_intencion with the order number tested before the questions
IntencionPorPedido(q) ==
  IF ContieneAlguna(q, ACCIONES_EXPLICITAS) \/ HayOrderId(q)
    THEN INTENT_DEVOLUCION
    ELSE INTENT_INFORMATIVA

\* _detectar_intencion with the action phrases tested before the questions
IntencionAccionPrimero(q) ==
  IF ContieneAlguna(q, ACCIONES_EXPLICITAS) THEN INTENT_DEVOLUCION
  ELSE IF ContieneAlguna(q, PALABRAS_INTERROGATIVAS) THEN INTENT_INFORMATIVA
  ELSE IF ContieneAlguna(q, PALABRAS_CONSULTA) THEN INTENT_INFORMATIVA
  ELSE IF (Contains(q, PUEDO) \/ Contains(q, SE_PUEDE)) /\ ~Contains(q, QUIERO)
    THEN INTENT_INFORMATIVA
  ELSE IF Contains(q, <<"?">>) THEN INTENT_INFORMATIVA
  ELSE IF HayOrderId(q) THEN INTENT_DEVOLUCION
  ELSE INTENT_INFORMATIVA

\* _detectar_intencion without the rule of the order number
IntencionSinPedido(q) ==
  IF ContieneAlguna(q, PALABRAS_INTERROGATIVAS) THEN INTENT_INFORMATIVA
  ELSE IF ContieneAlguna(q, PALABRAS_CONSULTA) THEN INTENT_INFORMATIVA
  ELSE IF (Contains(q, PUEDO) \/ Contains(q, SE_PUEDE)) /\ ~Contains(q, QUIERO)
    THEN INTENT_INFORMATIVA
  ELSE IF Contains(q, <<"?">>) THEN INTENT_INFORMATIVA
  ELSE IF ContieneAlguna(q, ACCIONES_EXPLICITAS) THEN INTENT_DEVOLUCION
  ELSE INTENT_INFORMATIVA

\* the rules of _detectar_intencion on q = query.lower(), first match wins
IntencionDeTexto(q) ==
  IF ContieneAlguna(q, PALABRAS_INTERROGATIVAS) THEN INTENT_INFORMATIVA
  ELSE IF ContieneAlguna(q, PALABRAS_CONSULTA) THEN INTENT_INFORMATIVA
  ELSE IF (Contains(q, PUEDO) \/ Contains(q, SE_PUEDE)) /\ ~Contains(q, QUIERO)
    THEN INTENT_INFORMATIVA
  ELSE IF Contains(q, <<"?">>) THEN INTENT_INFORMATIVA
  ELSE IF ContieneAlguna(q, ACCIONES_EXPLICITAS) THEN INTENT_DEVOLUCION
  ELSE IF HayOrderId(q) THEN INTENT_DEVOLUCION
  ELSE INTENT_INFORMATIVA

_detectar_intencion(query) == IntencionDeTexto(Lower(query))

(***************************************************************************)
(* Dates: datetime.strptime(s, "%Y-%m-%d") and datetime subtraction        *)
(***************************************************************************)
EsBisiesto(y) == (y % 4 = 0) /\ ((y % 100 # 0) \/ (y % 400 = 0))

DiasDelMes(y, m) ==
  IF m = 2 THEN (IF EsBisiesto(y) THEN 29 ELSE 28)
  ELSE IF m \in {4, 6, 9, 11} THEN 30 ELSE 31

\* int() of a string of digits
RECURSIVE Entero(_)
Entero(ds) ==
  IF ds = << >> THEN 0
  ELSE 10 * Entero(SubSeq(ds, 1, Len(ds) - 1))
       + (CHOOSE v \in 0..9 : ToString(v) = ds[Len(ds)])

\* the positions of "-" in s
Guiones(s) == {i \in 1..Len(s) : s[i] = "-"}

\* strptime(s, "%Y-%m-%d"): the date as [y, m, d]; [y |-> 0, ...] stands
\* for ValueError (the text does not match the format, or names no day of
\* the calendar)
FechaInvalida == [y |-> 0, m |-> 0, d |-> 0]

Strptime(s) ==
  IF Cardinality(Guiones(s)) # 2 THEN FechaInvalida
  ELSE LET g1 == CHOOSE i \in Guiones(s) : \A j \in Guiones(s) : i <= j
           g2 == CHOOSE i \in Guiones(s) : \A j \in Guiones(s) : j <= i
           ys == SubSeq(s, 1, g1 - 1)
           ms == SubSeq(s, g1 + 1, g2 - 1)
           ds == SubSeq(s, g2 + 1, Len(s))
           digitos(x) == \A k \in 1..Len(x) : EsDigito(x[k])
       IN  IF ~(/\ Len(ys) = 4 /\ Len(ms) \in 1..2 /\ Len(ds) \in 1..2
                /\ digitos(ys) /\ digitos(ms) /\ digitos(ds))
             THEN FechaInvalida
           ELSE LET y == Entero(ys)
                    m == Entero(ms)
                    d == Entero(ds)
                IN  IF y >= 1 /\ m \in 1..12 /\ d \in 1..DiasDelMes(y, m)
                      THEN [y |-> y, m |-> m, d |-> d]
                      ELSE FechaInvalida

\* date.toordinal(): days since 0001-01-01
RECURSIVE DiasAntesDelMes(_, _)
DiasAntesDelMes(y, m) ==
  IF m <= 1 THEN 0 ELSE DiasAntesDelMes(y, m - 1) + DiasDelMes(y, m - 1)

Ordinal(f) ==
  LET a == f.y - 1
  IN  a * 365 + (a \div 4) - (a \div 100) + (a \div 400)
      + DiasAntesDelMes(f.y, f.m) + f.d

\* (fecha_actual - fecha_entrega_dt).days: fecha_entrega_dt is a midnight, so
\* the whole days of the difference are the difference of the ordinals,
\* whatever the time of day of fecha_actual (negative for a later date)
DiasEntre(ahora_, f) == Ordinal(ahora_) - Ordinal(f)

\* the day after a date
DiaSiguiente(f) ==
  IF f.d < DiasDelMes(f.y, f.m) THEN [f EXCEPT !.d = f.d + 1]
  ELSE IF f.m < 12 THEN [f EXCEPT !.m = f.m + 1, !.d = 1]
  ELSE [f EXCEPT !.y = f.y + 1, !.m = 1, !.d = 1]

(***************************************************************************)
(* The order directory data/pedidos.json (data, not code: a directory that *)
(* holds one order in transit and two delivered ones)                      *)
(***************************************************************************)
\* a field of a JSON object is << >> when the object has no such key and
\* <<v>> when it has; dict.get(key, default):
Get(campo, default) == IF campo = << >> THEN default ELSE campo[1]

\* Python None where the value is otherwise a plain (unsearched) text
Nulo == "None"

\* tracking numbers
TRACKING ==
  [ n20001 |->
      <<"2","0","0","0","1">>,
    n20002 |->
      <<"2","0","0","0","2">>,
    n20003 |->
      <<"2","0","0","0","3">>,
    n20004 |->
      <<"2","0","0","0","4">>,
    n20005 |->
      <<"2","0","0","0","5">>,
    n20007 |->
      <<"2","0","0","0","7">>,
    n99999 |->
      <<"9","9","9","9","9">> ]

\* names of products
NOMBRES ==
  [ paquete_de_almojabanas |->
      <<"P","a","q","u","e","t","e"," ","d","e"," ","A","l","m","o","j","a","b","a","n","a","s">>,
    cafe_molido |->
      <<"C","a","f","é"," ","m","o","l","i","d","o">>,
    aspirina |->
      <<"A","s","p","i","r","i","n","a">>,
    perfume_floral |->
      <<"P","e","r","f","u","m","e"," ","f","l","o","r","a","l">>,
    vela_aromatica |->
      <<"V","e","l","a"," ","a","r","o","m","á","t","i","c","a">>,
    juego_de_cubiertos |->
      <<"J","u","e","g","o"," ","d","e"," ","c","u","b","i","e","r","t","o","s">>,
    termo |->
      <<"T","e","r","m","o">>,
    jabon_artesanal |->
      <<"J","a","b","ó","n"," ","a","r","t","e","s","a","n","a","l">> ]

\* delivery dates, as the texts of the directory
FECHAS ==
  [ n10_dias |->
      <<"2","0","2","5","-","1","2","-","2","0">>,
    n30_dias |->
      <<"2","0","2","5","-","1","1","-","3","0">>,
    n35_dias |->
      <<"2","0","2","5","-","1","1","-","2","5">>,
    imposible |->
      <<"2","0","2","5","-","0","2","-","3","0">>,
    estimada |->
      <<"2","0","2","5","-","1","0","-","0","1">>,
    futura |->
      <<"2","0","2","6","-","0","1","-","0","5">> ]

PEDIDOS ==
  << [tracking_number |-> TRACKING.n20001, estado |-> "En tránsito",
      transportadora |-> <<"DHL">>, destino |-> "Bogotá",
      fecha_entrega_real |-> << >>, fecha_estimada |-> <<FECHAS.estimada>>,
      productos |->
        << [nombre |-> NOMBRES.paquete_de_almojabanas,
            categoria |-> "Alimento perecedero", dev_aceptada |-> FALSE],
           [nombre |-> NOMBRES.cafe_molido,
            categoria |-> "Alimento perecedero", dev_aceptada |-> FALSE],
           [nombre |-> NOMBRES.aspirina,
            categoria |-> "Medicamentos", dev_aceptada |-> TRUE] >>],
     [tracking_number |-> TRACKING.n20002, estado |-> "Entregado",
      transportadora |-> <<"Servientrega">>, destino |-> "Medellín",
      fecha_entrega_real |-> <<FECHAS.n10_dias>>, fecha_estimada |-> << >>,
      productos |->
        << [nombre |-> NOMBRES.perfume_floral,
            categoria |-> "Belleza", dev_aceptada |-> TRUE],
           [nombre |-> NOMBRES.vela_aromatica,
            categoria |-> "Hogar", dev_aceptada |-> FALSE] >>],
     [tracking_number |-> TRACKING.n20003, estado |-> "Entregado",
      transportadora |-> <<"DHL">>, destino |-> "Pasto",
      fecha_entrega_real |-> <<None>>, fecha_estimada |-> << >>,
      productos |->
        << [nombre |-> NOMBRES.termo,
            categoria |-> "Hogar", dev_aceptada |-> TRUE] >>],
     [tracking_number |-> TRACKING.n20004, estado |-> "Entregado",
      transportadora |-> <<"DHL">>, destino |-> "Tunja",
      fecha_entrega_real |-> << >>, fecha_estimada |-> <<FECHAS.n10_dias>>,
      productos |->
        << [nombre |-> NOMBRES.termo,
            categoria |-> "Hogar", dev_aceptada |-> TRUE] >>],
     [tracking_number |-> TRACKING.n20005, estado |-> "Entregado",
      transportadora |-> <<"DHL">>, destino |-> "Neiva",
      fecha_entrega_real |-> <<FECHAS.imposible>>, fecha_estimada |-> << >>,
      productos |->
        << [nombre |-> NOMBRES.termo,
            categoria |-> "Hogar", dev_aceptada |-> TRUE] >>],
     [tracking_number |-> TRACKING.n20007, estado |-> "Entregado",
      transportadora |-> << >>, destino |-> "Cali",
      fecha_entrega_real |-> <<FECHAS.n30_dias>>, fecha_estimada |-> << >>,
      productos |->
        << [nombre |-> NOMBRES.juego_de_cubiertos,
            categoria |-> "Hogar", dev_aceptada |-> TRUE],
           [nombre |-> NOMBRES.termo,
            categoria |-> "Hogar", dev_aceptada |-> TRUE],
           [nombre |-> NOMBRES.jabon_artesanal,
            categoria |-> "Higiene", dev_aceptada |-> TRUE] >>] >>

(***************************************************************************)
(* The tools of agent_tools.py                                             *)
(***************************************************************************)
\* _cargar_pedidos: the list of the file, [] when reading it fails
_cargar_pedidos(legible) == IF legible THEN PEDIDOS ELSE << >>

\* next((p for p in pedidos if p.get("tracking_number") == order_id), None):
\* the index of the first such order, 0 for None
IndicePedido(pedidos_, order_id) ==
  LET ok == {k \in 1..Len(pedidos_) : pedidos_[k].tracking_number = order_id}
  IN  IF ok = {} THEN 0 ELSE CHOOSE k \in ok : \A j \in ok : k <= j

\* the first product whose name equals product_id, letter case apart; 0 if none
IndiceProducto(productos, product_id) ==
  LET ok == {k \in 1..Len(productos) :
               Lower(productos[k].nombre) = Lower(product_id)}
  IN  IF ok = {} THEN 0 ELSE CHOOSE k \in ok : \A j \in ok : k <= j

NombresDe(productos) == [k \in 1..Len(productos) |-> productos[k].nombre]

consultar_estado_pedido(legible, order_id, product_id) ==
  LET pedidos_ == _cargar_pedidos(legible)
      k == IndicePedido(pedidos_, order_id)
  IN  IF k = 0
        THEN [transportadora |-> "", productos |-> << >>,
              existe |-> FALSE, producto_existe |-> FALSE,
              fue_entregado |-> FALSE, fecha_entrega |-> << >>,
              estado_actual |-> ""]
        ELSE LET pedido == pedidos_[k]
             IN  [transportadora |-> Get(pedido.transportadora, Nulo),
                  productos |-> NombresDe(pedido.productos),
                  existe |-> TRUE,
                  producto_existe |->
                    IF Falsy(product_id) THEN TRUE
                    ELSE IndiceProducto(pedido.productos, product_id) # 0,
                  fue_entregado |-> pedido.estado = "Entregado",
                  fecha_entrega |-> Get(pedido.fecha_entrega_real, << >>),
                  estado_actual |-> pedido.estado]

CATEGORIAS_NO_RETORNABLES == {"Alimento perecedero", "Higiene", "Medicamentos"}

DANADO_TRANSPORTE == <<"d","a","ñ","a","d","o","_","t","r","a","n","s","p","o","r","t","e">>

SELLADO == <<"s","e","l","l","a","d","o">>

ABIERTO_PERO_NUEVO == <<"a","b","i","e","r","t","o","_","p","e","r","o","_","n","u","e","v","o">>

USADO == <<"u","s","a","d","o">>

ESTADOS_NO_ELEGIBLES == {USADO}

VentanaDias == 30

PASOS_SOPORTE == <<"Contactar soporte para casos excepcionales">>

PASOS_PRIORITARIA ==
  <<"Un mensajero recogerá el producto en las próximas 24 horas",
    "No necesitas empacar el producto",
    "Recibirás reembolso completo en 3-5 días hábiles">>

PASOS_DOMICILIO ==
  <<"Imprimir etiqueta de devolución",
    "Empacar el producto en su caja original",
    "Entregar paquete al mensajero",
    "Reembolso procesado al confirmar recepción (5-7 días hábiles)">>

\* a verdict; razon is the f-string's template and the values it formats in;
\* categoria_proceso Nulo and dias_restantes {} are the absent values
Veredicto(elegible, tipo, dias, cat, est, proceso, restantes, pasos, motivo) ==
  [excepcion |-> FALSE,
   es_elegible |-> elegible,
   razon |-> [estado |-> est, categoria |-> cat, tipo |-> tipo, dias |-> dias],
   categoria_proceso |-> proceso,
   dias_restantes |-> restantes,
   pasos_siguientes |-> pasos,
   motivo_registrado |-> motivo]

NoElegible(tipo, dias, cat, est, pasos) ==
  Veredicto(FALSE, tipo, dias, cat, est, Nulo, {}, pasos, Nulo)

\* the call raised instead of returning
VeredictoExcepcion ==
  [excepcion |-> TRUE, es_elegible |-> FALSE,
   razon |-> [estado |-> << >>, categoria |-> "", tipo |-> "excepcion", dias |-> {}],
   categoria_proceso |-> Nulo, dias_restantes |-> {},
   pasos_siguientes |-> << >>, motivo_registrado |-> Nulo]

\* ReglaCategoria without the test of dev_aceptada
ReglaCategoriaSinMarca(producto) ==
  producto.categoria \in CATEGORIAS_NO_RETORNABLES

\* Regla 1: Categorías no retornables
ReglaCategoria(producto) ==
  \/ producto.categoria \in CATEGORIAS_NO_RETORNABLES
  \/ ~producto.dev_aceptada

\* ReglaPlazo with the window one day too long
ReglaPlazoLaxa(dias_transcurridos) == dias_transcurridos > VentanaDias + 1

\* Regla 2: dias_transcurridos > 30
ReglaPlazo(dias_transcurridos) == dias_transcurridos > VentanaDias

\* Regla 3: Estado del producto
ReglaEstado(estado_producto) == estado_producto \in ESTADOS_NO_ELEGIBLES

\* CategoriaProceso without the priority branch
CategoriaProcesoSinPrioridad(estado_producto) == "recoleccion_domicilio"

\* Determinar categoría de proceso
CategoriaProceso(estado_producto) ==
  IF estado_producto = DANADO_TRANSPORTE
    THEN "recoleccion_prioritaria"
    ELSE "recoleccion_domicilio"

DiasRestantes(dias_transcurridos) == VentanaDias - dias_transcurridos

\* VerificarCuerpo with the rule of the condition before the window
VerificarEstadoPrimero(legible, ahora_, order_id, product_id, motivo_devolucion, fecha_entrega, estado_producto) ==
  LET pedidos_ == _cargar_pedidos(legible)
      k == IndicePedido(pedidos_, order_id)
  IN  IF k = 0
        THEN NoElegible("pedido_no_encontrado", {}, "", << >>, << >>)
      ELSE LET i == IndiceProducto(pedidos_[k].productos, product_id)
      IN  IF i = 0
        THEN NoElegible("producto_no_encontrado", {}, "", << >>, << >>)
      ELSE LET producto == pedidos_[k].productos[i]
      IN  IF ReglaCategoria(producto)
        THEN NoElegible("categoria", {}, producto.categoria, << >>,
                        PASOS_SOPORTE)
      ELSE IF ReglaEstado(estado_producto)
        THEN NoElegible("estado", {}, "", estado_producto, << >>)
      ELSE LET fecha_entrega_dt == Strptime(fecha_entrega)
      IN  IF fecha_entrega_dt = FechaInvalida
        THEN NoElegible("fecha_invalida", {}, "", << >>, << >>)
      ELSE LET dias_transcurridos == DiasEntre(ahora_, fecha_entrega_dt)
      IN  IF ReglaPlazo(dias_transcurridos)
        THEN NoElegible("plazo", {dias_transcurridos}, "", << >>, << >>)
      ELSE Veredicto(TRUE, "ok", {}, "", estado_producto,
                     CategoriaProceso(estado_producto),
                     {DiasRestantes(dias_transcurridos)},
                     IF estado_producto = DANADO_TRANSPORTE
                       THEN PASOS_PRIORITARIA ELSE PASOS_DOMICILIO,
                     motivo_devolucion)

\* the body of verificar_elegibilidad_producto; ahora_ is datetime.now()
VerificarCuerpo(legible, ahora_, order_id, product_id, motivo_devolucion, fecha_entrega, estado_producto) ==
  LET pedidos_ == _cargar_pedidos(legible)
      k == IndicePedido(pedidos_, order_id)
  IN  IF k = 0
        THEN NoElegible("pedido_no_encontrado", {}, "", << >>, << >>)
      ELSE LET i == IndiceProducto(pedidos_[k].productos, product_id)
      IN  IF i = 0
        THEN NoElegible("producto_no_encontrado", {}, "", << >>, << >>)
      ELSE LET producto == pedidos_[k].productos[i]
      IN  IF ReglaCategoria(producto)
        THEN NoElegible("categoria", {}, producto.categoria, << >>,
                        PASOS_SOPORTE)
      ELSE LET fecha_entrega_dt == Strptime(fecha_entrega)
      IN  IF fecha_entrega_dt = FechaInvalida
        THEN NoElegible("fecha_invalida", {}, "", << >>, << >>)
      ELSE LET dias_transcurridos == DiasEntre(ahora_, fecha_entrega_dt)
      IN  IF ReglaPlazo(dias_transcurridos)
        THEN NoElegible("plazo", {dias_transcurridos}, "", << >>, << >>)
      ELSE IF ReglaEstado(estado_producto)
        THEN NoElegible("estado", {}, "", estado_producto, << >>)
      ELSE Veredicto(TRUE, "ok", {}, "", estado_producto,
                     CategoriaProceso(estado_producto),
                     {DiasRestantes(dias_transcurridos)},
                     IF estado_producto = DANADO_TRANSPORTE
                       THEN PASOS_PRIORITARIA ELSE PASOS_DOMICILIO,
                     motivo_devolucion)

\* verificar_elegibilidad_producto.invoke(...): fecha_entrega is declared
\* str, and a None (a null of the directory) is no str: the call raises,
\* at the latest in strptime, which takes no None
verificar_elegibilidad_producto(legible, ahora_, order_id, product_id, motivo_devolucion, fecha_entrega, estado_producto) ==
  IF fecha_entrega = None THEN VeredictoExcepcion
  ELSE VerificarCuerpo(legible, ahora_, order_id, product_id,
                       motivo_devolucion, fecha_entrega, estado_producto)

\* str(n) of a natural number, as in f"{datetime.now().year}"
RECURSIVE Decimal(_)
Decimal(n) ==
  LET cifra == <<"0","1","2","3","4","5","6","7","8","9">>[(n % 10) + 1]
  IN  IF n < 10 THEN <<cifra>> ELSE Append(Decimal(n \div 10), cifra)

\* DosCifras without the zero padding
SinRelleno(n) == Decimal(n)

\* %H, %M, %S of strftime: two digits, zero-padded
DosCifras(n) == IF n < 10 THEN <<"0">> \o Decimal(n) ELSE Decimal(n)

\* f"RMA-{datetime.now().year}-{timestamp[-6:]}": the year, and the last six
\* characters of %Y%m%d%H%M%S, which are %H%M%S of the time of day (tod,
\* in seconds)
RmaId(ahora_) ==
  <<"R","M","A","-">> \o Decimal(ahora_.y) \o <<"-">> \o DosCifras(ahora_.tod \div 3600)
    \o DosCifras((ahora_.tod \div 60) % 60) \o DosCifras(ahora_.tod % 60)

SinRma == << >>

\* f"https://ecomarket.dev/devoluciones/{rma_id}.pdf"
EtiquetaUrl(rma_id) ==
  <<"h","t","t","p","s",":","/","/","e","c","o","m","a","r","k","e","t",".","d","e","v","/","d","e","v","o","l","u","c","i","o","n","e","s","/">> \o rma_id \o <<".","p","d","f">>

generar_etiqueta_devolucion(legible, ahora_, order_id, product_id, categoria_proceso, motivo_devolucion) ==
  LET pedidos_ == _cargar_pedidos(legible)
      k == IndicePedido(pedidos_, order_id)
  IN  IF k = 0
        THEN [transportadora |-> Nulo, producto |-> << >>,
              rma_id |-> SinRma, error |-> TRUE,
              tipo_envio |-> Nulo, etiqueta_pdf_url |-> << >>,
              orden_original |-> << >>]
        ELSE [transportadora |-> Get(pedidos_[k].transportadora, "EcoExpress"),
              producto |-> product_id,
              rma_id |-> RmaId(ahora_),
              error |-> FALSE,
              tipo_envio |->
                IF categoria_proceso = "recoleccion_prioritaria"
                  THEN "recoleccion_prioritaria"
                  ELSE "recoleccion_domicilio",
              etiqueta_pdf_url |-> EtiquetaUrl(RmaId(ahora_)),
              orden_original |-> order_id]

(***************************************************************************)
(* 2. Slot extraction                                                      *)
(***************************************************************************)
\* what the users type
\* the utterances of the model's turns
QUERIES ==
  [ sin_datos |->
      <<"q","u","i","e","r","o"," ","d","e","v","o","l","v","e","r"," ","m","i"," ","p","e","d","i","d","o">>,
    donde |->
      <<"¿","D","ó","n","d","e"," ","e","s","t","á"," ","m","i"," ","p","e","d","i","d","o"," ","2","0","0","0","1","?">>,
    puedo |->
      <<"¿","P","u","e","d","o"," ","d","e","v","o","l","v","e","r"," ","e","l"," ","p","r","o","d","u","c","t","o"," ","d","e","l"," ","p","e","d","i","d","o"," ","2","0","0","0","7","?">>,
    perfume |->
      <<"Q","u","i","e","r","o"," ","d","e","v","o","l","v","e","r"," ","e","l"," ","P","e","r","f","u","m","e"," ","f","l","o","r","a","l"," ","d","e","l"," ","p","e","d","i","d","o"," ","2","0","0","0","2">>,
    perfume_99999 |->
      <<"Q","u","i","e","r","o"," ","d","e","v","o","l","v","e","r"," ","e","l"," ","P","e","r","f","u","m","e"," ","f","l","o","r","a","l"," ","d","e","l"," ","p","e","d","i","d","o"," ","9","9","9","9","9">>,
    iniciar_99999 |->
      <<"I","N","I","C","I","A","R"," ","d","e","v","o","l","u","c","i","ó","n"," ","d","e","l"," ","p","e","d","i","d","o"," ","9","9","9","9","9">>,
    iniciar_20007 |->
      <<"I","N","I","C","I","A","R"," ","d","e","v","o","l","u","c","i","ó","n"," ","d","e","l"," ","p","e","d","i","d","o"," ","2","0","0","0","7">>,
    perfume_sin_pedido |->
      <<"Q","u","i","e","r","o"," ","d","e","v","o","l","v","e","r"," ","e","l"," ","P","e","r","f","u","m","e"," ","f","l","o","r","a","l">>,
    el_termo |->
      <<"Q","u","i","e","r","o"," ","d","e","v","o","l","v","e","r"," ","e","l"," ","T","e","r","m","o"," ","d","e","l"," ","p","e","d","i","d","o"," ","2","0","0","0","7">>,
    termo_20003 |->
      <<"Q","u","i","e","r","o"," ","d","e","v","o","l","v","e","r"," ","e","l"," ","T","e","r","m","o"," ","d","e","l"," ","p","e","d","i","d","o"," ","2","0","0","0","3">>,
    termo_20004 |->
      <<"Q","u","i","e","r","o"," ","d","e","v","o","l","v","e","r"," ","e","l"," ","T","e","r","m","o"," ","d","e","l"," ","p","e","d","i","d","o"," ","2","0","0","0","4">>,
    termo_20005 |->
      <<"Q","u","i","e","r","o"," ","d","e","v","o","l","v","e","r"," ","e","l"," ","T","e","r","m","o"," ","d","e","l"," ","p","e","d","i","d","o"," ","2","0","0","0","5">>,
    solo_termo |->
      <<"T","e","r","m","o">>,
    termo_roto |->
      <<"M","i"," ","T","e","r","m","o"," ","l","l","e","g","ó"," ","r","o","t","o",","," ","q","u","i","e","r","o"," ","d","e","v","o","l","v","e","r"," ","e","l"," ","T","e","r","m","o"," ","d","e","l"," ","p","e","d","i","d","o"," ","2","0","0","0","7">>,
    jabon |->
      <<"Q","u","i","e","r","o"," ","d","e","v","o","l","v","e","r"," ","e","l"," ","J","a","b","ó","n"," ","a","r","t","e","s","a","n","a","l"," ","d","e","l"," ","p","e","d","i","d","o"," ","2","0","0","0","7">>,
    cafe |->
      <<"Q","u","i","e","r","o"," ","d","e","v","o","l","v","e","r"," ","e","l"," ","C","a","f","é"," ","m","o","l","i","d","o"," ","d","e","l"," ","p","e","d","i","d","o"," ","2","0","0","0","1">>,
    cubiertos |->
      <<"Q","u","i","e","r","o"," ","d","e","v","o","l","v","e","r"," ","e","l"," ","J","u","e","g","o"," ","d","e"," ","c","u","b","i","e","r","t","o","s"," ","d","e","l"," ","p","e","d","i","d","o"," ","2","0","0","0","7">> ]

Consultas ==
  {QUERIES.sin_datos, QUERIES.donde, QUERIES.puedo, QUERIES.perfume, QUERIES.perfume_99999, QUERIES.iniciar_99999,
   QUERIES.iniciar_20007, QUERIES.perfume_sin_pedido, QUERIES.el_termo, QUERIES.jabon, QUERIES.cafe,
   QUERIES.cubiertos}

\* the utterances of a dialogue that fills the slots over its turns, of a
\* return that declares the product broken, and of returns from orders
\* whose fecha_entrega_real is null, absent, or no date
ConsultasDeDialogo ==
  {QUERIES.iniciar_20007, QUERIES.solo_termo, QUERIES.el_termo, QUERIES.termo_roto, QUERIES.termo_20003,
   QUERIES.termo_20004, QUERIES.termo_20005}

\* the text functions on the utterances, computed once
IntencionDe == [q \in Consultas \cup ConsultasDeDialogo |-> _detectar_intencion(q)]

NumeroEn == [q \in Consultas \cup ConsultasDeDialogo |-> PrimerOrderId(q)]

ProductoEn == [q \in Consultas \cup ConsultasDeDialogo |-> ExtraerProducto(q)]

\* self.conversation_context of EcoMarketAgent.__init__
ContextoInicial ==
  [last_order_id |-> None, last_product_id |-> None, last_action |-> None]

\* OrderIdDe without the context
OrderIdSinContexto(numero, ctx) == IF numero # << >> THEN numero ELSE None

\* order_id: numeros[0], else the context's last_order_id, else None
OrderIdDe(numero, ctx) ==
  IF numero # << >> THEN numero
  ELSE IF ~Falsy(ctx.last_order_id) THEN ctx.last_order_id
  ELSE None

\* ActualizarContexto without its two tests: it writes what it is given
ActualizarSinGuardas(ctx, order_id, product_id) ==
  [last_order_id |-> order_id, last_product_id |-> product_id,
   last_action |-> ctx.last_action]

\* actualizar contexto
ActualizarContexto(ctx, order_id, product_id) ==
  [last_order_id |-> IF Falsy(order_id) THEN ctx.last_order_id ELSE order_id,
   last_product_id |-> IF Falsy(product_id) THEN ctx.last_product_id ELSE product_id,
   last_action |-> ctx.last_action]

\* what _extraer_datos_pedido returns, and the context it leaves
Datos(order_id, product_id, ctx) ==
  [order_id |-> order_id, product_id |-> product_id,
   contexto |-> ActualizarContexto(ctx, order_id, product_id)]

_extraer_datos_pedido(query, ctx) ==
  Datos(OrderIdDe(NumeroEn[query], ctx), ProductoEn[query], ctx)

(***************************************************************************)
(* 4. The return workflow, 5. run, 6. _resp                                *)
(***************************************************************************)
T_CONSULTAR == "consultar_estado_pedido"

T_VERIFICAR == "verificar_elegibilidad_producto"

T_GENERAR == "generar_etiqueta_devolucion"

\* _resp(success, message, used_tools): the message is named by its
\* template, with the values it shows: the rma_id, and what it shows of the
\* results of the tools (mostrado)
_resp(success, mensaje, used_tools) ==
  [rma_id |-> SinRma, success |-> success, used_tools |-> used_tools,
   response |-> mensaje, mostrado |-> << >>]

SinResp == _resp(FALSE, "", << >>)

\* not a response: _flujo_devolucion goes on to its next step
Seguir == _resp(TRUE, "seguir", << >>)

\* the messages of the responses, each named by its template
MENSAJES ==
  [ pedir_pedido |->
      "Para procesar la devolución necesito el número de pedido",
    no_encontre |->
      "No encontré el pedido. Por favor verifica el número.",
    cual_producto |->
      "Encontré el pedido. ¿Cuál producto deseas devolver?",
    no_en_registros |->
      "No encontré el pedido en nuestros registros.",
    producto_no_esta |->
      "El producto no está en el pedido.",
    no_entregado |->
      "El pedido está en estado",
    no_permitida |->
      "Devolución No Permitida",
    aprobada |->
      "¡Devolución Aprobada!",
    error_procesando |->
      "Error procesando la solicitud",
    error_consultando |->
      "Error consultando pedido",
    llm |->
      "respuesta del LLM",
    fallback |->
      "Políticas generales de devolución de EcoMarket" ]

\* 1. Si no hay order_id, pedirlo
SinOrderId == _resp(TRUE, MENSAJES.pedir_pedido, << >>)

\* 2. Si no hay product_id, intentar listar productos
TrasConsultarSinProducto(estado) ==
  IF ~estado.existe
    THEN _resp(TRUE, MENSAJES.no_encontre, << >>)
    ELSE [_resp(TRUE, MENSAJES.cual_producto, <<T_CONSULTAR>>)
            EXCEPT !.mostrado = estado.productos]

\* 3. Flujo completo, Paso 1: consultar estado
TrasConsultarConProducto(estado) ==
  IF ~estado.existe THEN _resp(TRUE, MENSAJES.no_en_registros, <<T_CONSULTAR>>)
  ELSE IF ~estado.producto_existe
    THEN [_resp(TRUE, MENSAJES.producto_no_esta, <<T_CONSULTAR>>)
            EXCEPT !.mostrado = estado.productos]
  ELSE IF ~estado.fue_entregado
    THEN [_resp(TRUE, MENSAJES.no_entregado, <<T_CONSULTAR>>)
            EXCEPT !.mostrado =
              <<estado.estado_actual,
                IF "fecha_estimada" \in DOMAIN estado
                  THEN estado.fecha_estimada
                  ELSE <<"N","o"," ","d","i","s","p","o","n","i","b","l","e">>>>]
  ELSE Seguir

\* TrasConsultar without the branch of the missing product
TrasConsultarSinPregunta(product_id, estado) ==
  TrasConsultarConProducto(estado)

TrasConsultar(product_id, estado) ==
  IF Falsy(product_id) THEN TrasConsultarSinProducto(estado)
  ELSE TrasConsultarConProducto(estado)

\* TrasVerificar without the test of es_elegible
TrasVerificarSinVeredicto(elegibilidad) ==
  IF elegibilidad.excepcion THEN _resp(FALSE, MENSAJES.error_procesando, << >>) ELSE Seguir

\* Paso 2: elegibilidad
TrasVerificar(elegibilidad) ==
  IF elegibilidad.excepcion THEN _resp(FALSE, MENSAJES.error_procesando, << >>)
  ELSE IF ~elegibilidad.es_elegible
    THEN [_resp(TRUE, MENSAJES.no_permitida, <<T_CONSULTAR, T_VERIFICAR>>)
            EXCEPT !.mostrado =
              <<elegibilidad.razon, elegibilidad.pasos_siguientes>>]
  ELSE Seguir

\* Paso 3: etiqueta
TrasGenerar(etiqueta) ==
  [rma_id |-> etiqueta.rma_id, success |-> TRUE,
   used_tools |-> <<T_CONSULTAR, T_VERIFICAR, T_GENERAR>>,
   response |-> MENSAJES.aprobada, mostrado |-> <<etiqueta.transportadora>>]

(***************************************************************************)
(* State                                                                   *)
(***************************************************************************)
\* the browser sessions of the application; get_agent is st.cache_resource,
\* so all of them talk to one EcoMarketAgent
Sesiones == {"A", "B"}

\* datetime.now() when the model starts
Arranque == [y |-> 2025, m |-> 12, d |-> 30, tod |-> 0]

\* bounds: days the clock may advance, distinct %H%M%S values of a day
MaxDias == 1

TicksPorDia == 2

VARIABLES
  ahora,       \* datetime.now(): [y, m, d, tod]
  legible,     \* whether data/pedidos.json can be read and parsed
  contexto,    \* agent.conversation_context of the one cached agent
  origen,      \* the session whose utterance held contexto.last_order_id
  turno,       \* the call of agent.run in progress, or the last one finished
  emitidas,    \* the rma_id of the labels issued, in order (the last two)
  llamada,     \* the last direct call of a tool, with its result
  anterior     \* the call before it, when llamada repeats it

vars == <<ahora, legible, contexto, origen, turno, emitidas, llamada, anterior>>

\* no call of run yet
Reposo ==
  [query |-> << >>, order_id |-> None, product_id |-> None,
   fecha_entrega |-> << >>, categoria_proceso |-> Nulo,
   sesion |-> "", pc |-> "reposo", intencion |-> "", usa_de |-> "",
   invocadas |-> << >>, escrito |-> FALSE, resp |-> SinResp]

SinLlamada == [legible |-> TRUE, tool |-> "", args |-> << >>, hoy |-> << >>, res |-> << >>]

Init ==
  /\ ahora = Arranque
  /\ legible = TRUE
  /\ contexto = ContextoInicial
  /\ origen = ""
  /\ turno = Reposo
  /\ emitidas = << >>
  /\ llamada = SinLlamada
  /\ anterior = SinLlamada

(***************************************************************************)
(* Environment                                                             *)
(***************************************************************************)
DiasPasados == Ordinal(ahora) - Ordinal(Arranque)

\* the clock advances within the day
Tic ==
  /\ ahora.tod + 1 < TicksPorDia
  /\ ahora' = [ahora EXCEPT !.tod = ahora.tod + 1]
  /\ UNCHANGED <<legible, contexto, origen, turno, emitidas, llamada, anterior>>

\* midnight
Medianoche ==
  /\ DiasPasados < MaxDias
  /\ ahora' = [DiaSiguiente(ahora) EXCEPT !.tod = 0]
  /\ UNCHANGED <<legible, contexto, origen, turno, emitidas, llamada, anterior>>

\* data/pedidos.json becomes unreadable, or readable again
CambiaArchivo ==
  /\ legible' = ~legible
  /\ UNCHANGED <<ahora, contexto, origen, turno, emitidas, llamada, anterior>>

\* the file's JSON value, when a tool reads it, is not a list of orders (it
\* is an object, say): p.get raises AttributeError in the line of each tool
\* that looks the order up
Lanza(es_lista) == legible /\ ~es_lista

(***************************************************************************)
(* agent.run, one action per step of a turn. The turns of the sessions are  *)
(* taken one at a time: the locals of a turn are private to its call of     *)
(* run, and what the turns share (conversation_context, the clock, the      *)
(* file) changes between the steps of a turn through the actions above.     *)
(***************************************************************************)
\* an invocation of a tool by the turn; leido: the tool read the file as a
\* list of orders
Invocada(tool, order_id, product_id, ok, leido) ==
  [order_id |-> order_id, ok |-> ok, product_id |-> product_id, tool |-> tool,
   leido |-> leido]

\* no turn is in progress
Libre == turno.pc \in {"reposo", "fin"}

NuevoTurno(s, q) ==
  [Reposo EXCEPT !.sesion = s, !.query = q, !.intencion = IntencionDe[q]]

\* the step leads to the response r, or (Seguir) to the step pc
Paso(t, r, pc) ==
  IF r = Seguir THEN [t EXCEPT !.pc = pc] ELSE [t EXCEPT !.pc = "fin", !.resp = r]

\* RunInformativa with the extractor run before the answer
RunInformativaExtrae(s, q) ==
  /\ Libre
  /\ IntencionDe[q] = INTENT_INFORMATIVA
  /\ contexto' = _extraer_datos_pedido(q, contexto).contexto
  /\ \E respuesta \in {MENSAJES.llm, MENSAJES.fallback} :
       turno' = Paso(NuevoTurno(s, q), _resp(TRUE, respuesta, << >>), "fin")
  /\ UNCHANGED <<ahora, legible, origen, emitidas, llamada, anterior>>

\* run, the informative branch; respuesta is what _responder_informativa
\* returns: the answer of the LLM or the canned _respuesta_fallback
RunInformativa(s, q) ==
  /\ Libre
  /\ IntencionDe[q] = INTENT_INFORMATIVA
  /\ \E respuesta \in {MENSAJES.llm, MENSAJES.fallback} :
       turno' = Paso(NuevoTurno(s, q), _resp(TRUE, respuesta, << >>), "fin")
  /\ UNCHANGED <<ahora, legible, contexto, origen, emitidas, llamada, anterior>>

\* datos = self._extraer_datos_pedido(query), and _flujo_devolucion up to
\* its first call of a tool
Extrae(s, q, datos) ==
  /\ contexto' = datos.contexto
  /\ origen' = IF NumeroEn[q] # << >> THEN s ELSE origen
  /\ turno' = Paso([NuevoTurno(s, q) EXCEPT
                      !.order_id = datos.order_id,
                      !.product_id = datos.product_id,
                      !.usa_de = IF Falsy(datos.order_id) THEN "" ELSE origen',
                      !.escrito = (datos.contexto # contexto)],
                   IF Falsy(datos.order_id) THEN SinOrderId ELSE Seguir,
                   "consultar")

RunDevolucion(s, q) ==
  /\ Libre
  /\ IntencionDe[q] # INTENT_INFORMATIVA
  /\ Extrae(s, q, _extraer_datos_pedido(q, contexto))
  /\ UNCHANGED <<ahora, legible, emitidas, llamada, anterior>>

TrasPaso(t, tool, ok, leido, r, pc) ==
  Paso([t EXCEPT !.invocadas =
          Append(t.invocadas,
                 Invocada(tool, t.order_id, t.product_id, ok, leido))],
       r, pc)

\* TrasExcepcion without the except clauses: no response is built
SinExcept(paso, product_id) == Seguir

\* the except clauses of _flujo_devolucion: the one around the lookup made
\* without a product, and the one around the whole flow
TrasExcepcion(paso, product_id) ==
  IF paso = "consultar" /\ Falsy(product_id)
    THEN _resp(FALSE, MENSAJES.error_consultando, << >>)
    ELSE _resp(FALSE, MENSAJES.error_procesando, << >>)

\* tool.invoke raises
Lanzada(tool) ==
  turno' = TrasPaso(turno, tool, FALSE, FALSE,
                    TrasExcepcion(turno.pc, turno.product_id), "fin")

Consultado(estado) ==
  turno' = [TrasPaso(turno, T_CONSULTAR, estado.existe, legible,
                     TrasConsultar(turno.product_id, estado), "verificar")
              EXCEPT !.fecha_entrega = estado.fecha_entrega]

\* consultar_estado_pedido.invoke
Consultar ==
  /\ turno.pc = "consultar"
  /\ \E es_lista \in BOOLEAN :
       IF Lanza(es_lista) THEN Lanzada(T_CONSULTAR)
       ELSE Consultado(consultar_estado_pedido(legible, turno.order_id, turno.product_id))
  /\ UNCHANGED <<ahora, legible, contexto, origen, emitidas, llamada, anterior>>

MOTIVO_CLIENTE == "Solicitud del cliente"

Verificado(elegibilidad) ==
  turno' = [TrasPaso(turno, T_VERIFICAR, elegibilidad.es_elegible, legible,
                     TrasVerificar(elegibilidad), "generar")
              EXCEPT !.categoria_proceso = elegibilidad.categoria_proceso]

\* Verificar with a condition other than "sellado" passed to the tool
VerificarOtroEstado ==
  /\ turno.pc = "verificar"
  /\ \E es_lista \in BOOLEAN, estado \in {SELLADO, USADO, DANADO_TRANSPORTE} :
       IF Lanza(es_lista) THEN Lanzada(T_VERIFICAR)
       ELSE Verificado(verificar_elegibilidad_producto(legible, ahora, turno.order_id, turno.product_id, MOTIVO_CLIENTE, turno.fecha_entrega, estado))
  /\ UNCHANGED <<ahora, legible, contexto, origen, emitidas, llamada, anterior>>

\* verificar_elegibilidad_producto.invoke
Verificar ==
  /\ turno.pc = "verificar"
  /\ \E es_lista \in BOOLEAN :
       IF Lanza(es_lista) THEN Lanzada(T_VERIFICAR)
       ELSE Verificado(verificar_elegibilidad_producto(legible, ahora, turno.order_id, turno.product_id, MOTIVO_CLIENTE, turno.fecha_entrega, SELLADO))
  /\ UNCHANGED <<ahora, legible, contexto, origen, emitidas, llamada, anterior>>

\* one more issuance: the history keeps the last two rma_id returned
Emitir(historia, rma_id) ==
  IF Len(historia) < 2 THEN Append(historia, rma_id)
  ELSE <<historia[2], rma_id>>

Generado(etiqueta) ==
  /\ turno' = TrasPaso(turno, T_GENERAR, ~etiqueta.error, legible,
                       TrasGenerar(etiqueta), "fin")
  /\ emitidas' = IF etiqueta.error THEN emitidas
                 ELSE Emitir(emitidas, etiqueta.rma_id)

\* generar_etiqueta_devolucion.invoke, and the approval message
Generar ==
  /\ turno.pc = "generar"
  /\ \E es_lista \in BOOLEAN :
       IF Lanza(es_lista) THEN Lanzada(T_GENERAR) /\ emitidas' = emitidas
       ELSE Generado(generar_etiqueta_devolucion(legible, ahora, turno.order_id, turno.product_id, turno.categoria_proceso, MOTIVO_CLIENTE))
  /\ UNCHANGED <<ahora, legible, contexto, origen, llamada, anterior>>

Next ==
  \/ Tic
  \/ Medianoche
  \/ CambiaArchivo
  \/ \E s \in Sesiones, q \in Consultas : RunInformativa(s, q)
  \/ \E s \in Sesiones, q \in Consultas : RunDevolucion(s, q)
  \/ Consultar
  \/ Verificar
  \/ Generar

Spec == Init /\ [][Next]_vars

\* the same agent, spoken to with the utterances of ConsultasDeDialogo
NextDialogo ==
  \/ Tic
  \/ Medianoche
  \/ CambiaArchivo
  \/ \E s \in Sesiones, q \in ConsultasDeDialogo : RunInformativa(s, q)
  \/ \E s \in Sesiones, q \in ConsultasDeDialogo : RunDevolucion(s, q)
  \/ Consultar
  \/ Verificar
  \/ Generar

DialogoSpec == Init /\ [][NextDialogo]_vars

(***************************************************************************)
(* The tools called directly (TOOLS, as test_herramientas does), with any  *)
(* arguments                                                               *)
(***************************************************************************)
\* the (order_id, product_id) a caller passes: products of each category
\* rule, a product of another order, an order the directory does not hold
ParesDeArgumentos ==
  { <<TRACKING.n20001, NOMBRES.paquete_de_almojabanas>>, <<TRACKING.n20001, NOMBRES.aspirina>>,
    <<TRACKING.n20002, NOMBRES.perfume_floral>>, <<TRACKING.n20002, NOMBRES.vela_aromatica>>,
    <<TRACKING.n20002, NOMBRES.termo>>, <<TRACKING.n20007, NOMBRES.jabon_artesanal>>,
    <<TRACKING.n20007, NOMBRES.termo>>, <<TRACKING.n99999, NOMBRES.perfume_floral>> }

\* fecha_entrega: texts of dates 10, 30 and 35 days before Arranque and of
\* one 6 days after it, a text that names no day of the calendar, the
\* empty text, and None
FechasDeArgumento ==
  {FECHAS.n10_dias, FECHAS.n30_dias, FECHAS.n35_dias, FECHAS.futura, FECHAS.imposible,
   << >>, None}

EstadosDeArgumento == {SELLADO, ABIERTO_PERO_NUEVO, USADO, DANADO_TRANSPORTE}

MotivosDeArgumento == {MOTIVO_CLIENTE, "No me gustó"}

ProcesosDeArgumento == {"recoleccion_domicilio", "recoleccion_prioritaria", Nulo}

\* tool.invoke(args) at the present time, with the file as it is
Resultado(tool, args) ==
  IF tool = T_CONSULTAR
    THEN consultar_estado_pedido(legible, args.order_id, args.product_id)
  ELSE IF tool = T_VERIFICAR
    THEN verificar_elegibilidad_producto(legible, ahora, args.order_id, args.product_id, args.motivo_devolucion, args.fecha_entrega, args.estado_producto)
  ELSE generar_etiqueta_devolucion(legible, ahora, args.order_id, args.product_id, args.categoria_proceso, args.motivo_devolucion)

Hoy == [y |-> ahora.y, m |-> ahora.m, d |-> ahora.d]

Llamada(tool, args) ==
  [legible |-> legible, tool |-> tool, args |-> args, hoy |-> Hoy,
   res |-> Resultado(tool, args)]

\* the tools keep nothing between calls, so a behaviour follows one call and
\* its repetitions: any call is the first call of some behaviour
Invoca(tool, args) ==
  /\ llamada.tool = ""
  /\ llamada' = Llamada(tool, args)
  /\ anterior' = SinLlamada
  /\ UNCHANGED <<ahora, legible, contexto, origen, turno, emitidas>>

InvocaConsultar ==
  \E par \in ParesDeArgumentos, con_producto \in BOOLEAN :
     Invoca(T_CONSULTAR,
            [order_id |-> par[1],
             product_id |-> IF con_producto THEN par[2] ELSE None])

InvocaVerificar ==
  \E par \in ParesDeArgumentos, motivo \in MotivosDeArgumento,
     fecha \in FechasDeArgumento, estado \in EstadosDeArgumento :
     Invoca(T_VERIFICAR,
            [order_id |-> par[1], product_id |-> par[2],
             fecha_entrega |-> fecha, estado_producto |-> estado,
             motivo_devolucion |-> motivo])

InvocaGenerar ==
  \E par \in ParesDeArgumentos, proceso \in ProcesosDeArgumento :
     Invoca(T_GENERAR,
            [order_id |-> par[1], product_id |-> par[2],
             categoria_proceso |-> proceso, motivo_devolucion |-> MOTIVO_CLIENTE])

\* the same tool invoked again with the same arguments
Repite ==
  /\ llamada.tool # ""
  /\ anterior' = llamada
  /\ llamada' = Llamada(llamada.tool, llamada.args)
  /\ UNCHANGED <<ahora, legible, contexto, origen, turno, emitidas>>

NextTools ==
  \/ Tic
  \/ Medianoche
  \/ CambiaArchivo
  \/ InvocaConsultar
  \/ InvocaVerificar
  \/ InvocaGenerar
  \/ Repite

ToolSpec == Init /\ [][NextTools]_vars

(***************************************************************************)
(* The text functions called directly on utterances put together from      *)
(* parts: a marker of a question, an action phrase, an item, an order      *)
(* number                                                                  *)
(***************************************************************************)
PARTES ==
  [ marcas |->
      {<< >>, PUEDO \o <<" ">>, SE_PUEDE \o <<" ">>, <<"?", " ">>}
        \cup {PALABRAS_INTERROGATIVAS[k] \o <<" ">> : k \in 1..Len(PALABRAS_INTERROGATIVAS)}
        \cup {PALABRAS_CONSULTA[k] \o <<" ">> : k \in 1..Len(PALABRAS_CONSULTA)},
    acciones |->
      {<< >>} \cup {ACCIONES_EXPLICITAS[k] : k \in 1..Len(ACCIONES_EXPLICITAS)},
    articulos |->
      {<< >>, <<" ","d","e"," ","d","e","v","o","l","u","c","i","ó","n"," ","p","a","r","a">>, <<" ","d","e","l"," ","P","a","q","u","e","t","e"," ","d","e"," ","A","l","m","o","j","a","b","a","n","a","s">>, <<" ","e","l"," ","T","e","r","m","o">>},
    numeros |->
      {<< >>, <<" ","d","e","l"," ","p","e","d","i","d","o"," ","2","0","0","0","1">>, <<" ","1","2","3","4">>, <<" ","1","2","3","4","5","6","7","8","9","0","1">>, <<" ","p","e","d","i","d","o","2","0","0","0","7">>,
       <<" ","2","0","0","0","2"," ","y"," ","2","0","0","0","7">>, <<" ","1","2","3","4"," ","d","e","l"," ","p","e","d","i","d","o"," ","2","0","0","0","2">>, <<" ","1","2","3","4","5","6","7","8","9","0">>},
    ejemplos |->
      {<<"G","e","n","e","r","a","r"," ","e","t","i","q","u","e","t","a"," ","d","e"," ","d","e","v","o","l","u","c","i","ó","n"," ","p","a","r","a"," ","e","l"," ","p","e","d","i","d","o"," ","2","0","0","0","3">>,
       <<"I","n","i","c","i","a","r"," ","d","e","v","o","l","u","c","i","ó","n"," ","d","e","l"," ","P","a","q","u","e","t","e"," ","d","e"," ","A","l","m","o","j","a","b","a","n","a","s"," ","d","e","l"," ","p","e","d","i","d","o"," ","2","0","0","0","1">>},
    preguntas |->
      {<<"¿","P","u","e","d","o"," ","d","e","v","o","l","v","e","r"," ","u","n"," ","p","r","o","d","u","c","t","o"," ","d","e","f","e","c","t","u","o","s","o","?">>,
       <<"¿","Q","u","é"," ","h","a","g","o"," ","s","i"," ","m","i"," ","p","r","o","d","u","c","t","o"," ","l","l","e","g","ó"," ","D","a","ñ","a","d","o","?">>,
       <<"¿","P","u","e","d","o"," ","d","e","v","o","l","v","e","r"," ","u","n"," ","p","r","o","d","u","c","t","o"," ","r","o","t","o","?">>,
       <<"¿","C","u","á","l"," ","e","s"," ","e","l"," ","p","l","a","z","o"," ","d","e"," ","d","e","v","o","l","u","c","i","ó","n","?">>},
    respuestas |->
      {<<"N","o"," ","a","c","e","p","t","a","m","o","s"," ","d","e","v","o","l","u","c","i","o","n","e","s"," ","d","e"," ","p","r","o","d","u","c","t","o","s"," ","d","a","ñ","a","d","o","s"," ","o"," ","r","o","t","o","s",".">>,
       <<"L","o"," ","s","i","e","n","t","o",","," ","N","O"," ","P","U","E","D","O"," ","D","E","V","O","L","V","E","R"," ","t","u"," ","d","i","n","e","r","o",".">>,
       <<"L","o","s"," ","a","l","i","m","e","n","t","o","s"," ","p","e","r","e","c","e","d","e","r","o","s"," ","n","o"," ","t","i","e","n","e","n"," ","d","e","v","o","l","u","c","i","ó","n",".">>,
       <<"L","o","s"," ","p","r","o","d","u","c","t","o","s"," ","d","e","f","e","c","t","u","o","s","o","s"," ","t","i","e","n","e","n"," ","d","e","v","o","l","u","c","i","ó","n",";"," ","l","o","s"," ","p","e","r","e","c","e","d","e","r","o","s"," ","n","o",".">>,
       <<"T","i","e","n","e","s"," ","3","0"," ","d","í","a","s"," ","d","e","s","d","e"," ","l","a"," ","e","n","t","r","e","g","a",".">>} ]

\* every marker with every action phrase and an order number; every action
\* phrase with every item and every number
Combinaciones ==
  (PARTES.marcas \X PARTES.acciones \X {<< >>} \X {<<" ","d","e","l"," ","p","e","d","i","d","o"," ","2","0","0","0","1">>})
    \cup ({<< >>} \X PARTES.acciones \X PARTES.articulos \X PARTES.numeros)

Frase(c) == c[1] \o c[2] \o c[3] \o c[4]

\* _respuesta_tiene_errores(query, answer)
_respuesta_tiene_errores(query, answer) ==
  LET query_lower == Lower(query)
      answer_lower == Lower(answer)
  IN  \/ /\ \/ Contains(query_lower, <<"d","e","f","e","c","t","u","o","s","o">>)
            \/ Contains(query_lower, <<"d","a","ñ","a","d","o">>)
            \/ Contains(query_lower, <<"r","o","t","o">>)
         /\ Contains(answer_lower, <<"p","e","r","e","c","e","d","e","r","o">>)
         /\ ~Contains(answer_lower, <<"d","e","f","e","c","t","u","o","s","o">>)
      \/ /\ \/ Contains(query_lower, <<"d","e","f","e","c","t","u","o","s","o">>)
            \/ Contains(query_lower, <<"d","a","ñ","a","d","o">>)
         /\ \/ Contains(answer_lower, <<"n","o"," ","p","u","e","d","o"," ","d","e","v","o","l","v","e","r">>)
            \/ Contains(answer_lower, <<"n","o"," ","a","c","e","p","t","a","m","o","s"," ","d","e","v","o","l","u","c","i","o","n","e","s">>)

\* run, the informative branch, with the text of the answer of the LLM;
\* generada is false when _responder_informativa returns the canned text
\* before it has an answer (no document, no relevant document, or an
\* exception of the retriever or the LLM)
Responde(query, generada, answer) ==
  /\ turno.pc = "reposo"
  /\ _detectar_intencion(query) = INTENT_INFORMATIVA
  /\ turno' = [Reposo EXCEPT
                 !.query = query,
                 !.pc = "respondida",
                 !.intencion = INTENT_INFORMATIVA,
                 !.resp =
                   IF generada /\ ~_respuesta_tiene_errores(query, answer)
                     THEN [_resp(TRUE, MENSAJES.llm, << >>) EXCEPT !.mostrado = answer]
                     ELSE _resp(TRUE, MENSAJES.fallback, << >>)]
  /\ UNCHANGED <<ahora, legible, contexto, origen, emitidas, llamada, anterior>>

\* intencion = self._detectar_intencion(query)
Clasifica(query) ==
  /\ turno.pc = "reposo"
  /\ turno' = [Reposo EXCEPT !.query = query,
                             !.pc = "clasificada",
                             !.intencion = _detectar_intencion(query)]
  /\ UNCHANGED <<ahora, legible, contexto, origen, emitidas, llamada, anterior>>

\* datos = self._extraer_datos_pedido(query), with the context as the
\* extractions before it left it
ExtraeFrase(query, datos) ==
  /\ turno.pc \in {"reposo", "extraida"}
  /\ contexto' = datos.contexto
  /\ turno' = [Reposo EXCEPT !.query = query,
                             !.order_id = datos.order_id,
                             !.product_id = datos.product_id,
                             !.pc = "extraida"]
  /\ UNCHANGED <<ahora, legible, origen, emitidas, llamada, anterior>>

\* the utterances given to the extractor, with re.findall(ORDER_ID_REGEX,
\* query)[:1] and the product the patterns give, computed once
Extraido ==
  [query \in {Frase(c) : c \in {<< >>} \X {<< >>, ACCIONES_EXPLICITAS[1]}
                                 \X {<< >>, <<" ","e","l"," ","T","e","r","m","o">>} \X PARTES.numeros} |->
     [producto |-> ExtraerProducto(query), numero |-> PrimerOrderId(query)]]

NextTexto ==
  \/ \E c \in Combinaciones : Clasifica(Frase(c))
  \/ \E query \in PARTES.ejemplos : Clasifica(query)
  \/ \E query \in DOMAIN Extraido :
       ExtraeFrase(query,
                   Datos(OrderIdDe(Extraido[query].numero, contexto),
                         Extraido[query].producto, contexto))
  \/ \E query \in PARTES.preguntas, generada \in BOOLEAN,
        answer \in PARTES.respuestas : Responde(query, generada, answer)

TextSpec == Init /\ [][NextTexto]_vars

(***************************************************************************)
(* Properties.  Vocabulary: the directory's article a direct call names,   *)
(* and the whole days from its fecha_entrega to the day of the call.       *)
(***************************************************************************)
ArticuloLlamado ==
  LET k == IndicePedido(PEDIDOS, llamada.args.order_id)
  IN  IF k = 0 THEN << >>
      ELSE LET i == IndiceProducto(PEDIDOS[k].productos, llamada.args.product_id)
           IN  IF i = 0 THEN << >> ELSE <<PEDIDOS[k].productos[i]>>

\* verificar_elegibilidad_producto was called with a text for fecha_entrega,
\* a readable directory, and an article the directory holds
VerificaArticulo ==
  /\ llamada.tool = T_VERIFICAR
  /\ llamada.legible
  /\ llamada.args.fecha_entrega # None
  /\ ArticuloLlamado # << >>

CategoriaExcluida ==
  \/ ArticuloLlamado[1].categoria \in {"Alimento perecedero", "Higiene", "Medicamentos"}
  \/ ~ArticuloLlamado[1].dev_aceptada

FechaLegible == Strptime(llamada.args.fecha_entrega) # FechaInvalida

Transcurridos == DiasEntre(llamada.hoy, Strptime(llamada.args.fecha_entrega))

\* C1 (as the spec states it): no two issuances of a label return the same
\* rma_id, whichever sessions ask for them and however close in time.
C1_RmaDistintos ==
  Len(emitidas) = 2 => emitidas[1] # emitidas[2]

\* C2: within a turn, generar_etiqueta_devolucion is invoked only after
\* verificar_elegibilidad_producto was invoked in that same turn for the same
\* order_id and product_id and returned es_elegible = True.
C2_EtiquetaSoloTrasVeredicto ==
  \A i \in DOMAIN turno.invocadas :
     turno.invocadas[i].tool = T_GENERAR =>
       \E j \in 1..(i - 1) :
          /\ turno.invocadas[j].tool = T_VERIFICAR
          /\ turno.invocadas[j].ok
          /\ turno.invocadas[j].order_id = turno.invocadas[i].order_id
          /\ turno.invocadas[j].product_id = turno.invocadas[i].product_id

\* C2, reached: a turn ended with the approval after its three invocations
C2_Aprobada ==
  /\ turno.pc = "fin"
  /\ turno.resp.response = MENSAJES.aprobada
  /\ Len(turno.invocadas) = 3
  /\ turno.invocadas[3].tool = T_GENERAR

\* C3: for an article of an excluded category, or whose dev_aceptada is
\* false, the verdict is not eligible, with the category reason, no
\* categoria_proceso and the one next step of contacting support, whatever
\* the declared condition, the days elapsed, and whether the date parses.
C3_CategoriaNoRetornable ==
  (VerificaArticulo /\ CategoriaExcluida) =>
     /\ ~llamada.res.es_elegible
     /\ llamada.res.razon.tipo = "categoria"
     /\ llamada.res.razon.categoria = ArticuloLlamado[1].categoria
     /\ llamada.res.categoria_proceso = Nulo
     /\ llamada.res.pasos_siguientes = <<"Contactar soporte para casos excepcionales">>

\* C3, reached: an article refused by its flag alone (category Hogar),
\* declared used, with a date that does not parse
C3_VelaFechaImposible ==
  /\ VerificaArticulo
  /\ llamada.args.order_id = TRACKING.n20002
  /\ llamada.args.product_id = NOMBRES.vela_aromatica
  /\ llamada.args.fecha_entrega = FECHAS.imposible
  /\ llamada.args.estado_producto = USADO
  /\ llamada.res.razon.tipo = "categoria"

\* C4 (as the spec states it): for every order, more than 30 whole days
\* between the delivery date and now give a verdict that is not eligible
\* and whose reason names the count of days elapsed.
C4_PlazoNombraDias ==
  (VerificaArticulo /\ FechaLegible /\ Transcurridos > 30) =>
     /\ ~llamada.res.es_elegible
     /\ llamada.res.razon.tipo = "plazo"
     /\ llamada.res.razon.dias = {Transcurridos}

\* C4 (amended): more than 30 whole days between the delivery date and now
\* give a verdict that is not eligible; its reason names the count of days
\* elapsed when the directory holds the article and the article passes the
\* category rule, which is decided first.
C4_PlazoTrasCategoria ==
  /\ (llamada.tool = T_VERIFICAR /\ llamada.args.fecha_entrega # None
        /\ FechaLegible /\ Transcurridos > 30)
       => ~llamada.res.es_elegible
  /\ (VerificaArticulo /\ ~CategoriaExcluida /\ FechaLegible /\ Transcurridos > 30)
       => /\ llamada.res.razon.tipo = "plazo"
          /\ llamada.res.razon.dias = {Transcurridos}

\* C4, reached: a returnable article delivered 35 days before the call
C4_TreintaYCinco ==
  /\ VerificaArticulo
  /\ ~CategoriaExcluida
  /\ FechaLegible
  /\ Transcurridos = 35
  /\ llamada.res.razon.dias = {35}

\* C5 (as the spec states it): two calls of verificar_elegibilidad_producto
\* with the same arguments against the same directory return the same
\* verdict.
C5_MismoVeredicto ==
  (anterior.tool = T_VERIFICAR /\ anterior.legible = llamada.legible) =>
     anterior.res = llamada.res

\* C6 (as the spec states it): when the lookup of a turn finds no order, the
\* response says so and its used_tools is empty, with a product or without.
C6_NoEncontradoSinTools ==
  (/\ turno.pc = "fin"
   /\ Len(turno.invocadas) = 1
   /\ turno.invocadas[1].tool = T_CONSULTAR
   /\ ~turno.invocadas[1].ok) =>
     /\ turno.resp.response \in {MENSAJES.no_encontre, MENSAJES.no_en_registros}
     /\ turno.resp.used_tools = << >>

\* C7 (as the spec states it): from the empty conversation_context, the
\* utterance "quiero devolver mi pedido" extracts no order_id and no
\* product_id, and writes nothing into the context.
C7_SinDatosNadaEscrito ==
  [][(contexto = ContextoInicial
        /\ \E s \in Sesiones : RunDevolucion(s, QUERIES.sin_datos))
      => /\ Falsy(turno'.order_id)
         /\ Falsy(turno'.product_id)
         /\ contexto' = ContextoInicial]_vars

\* C8: a turn classified informativa invokes no tool and answers with an
\* empty used_tools, also when its utterance holds an order number: the
\* question about order 20001 and "¿Puedo devolver el producto del pedido
\* 20007?" are such turns.
C8_InformativaSinTools ==
  /\ turno.intencion = INTENT_INFORMATIVA
       => turno.invocadas = << >> /\ turno.resp.used_tools = << >>
  /\ turno.query \in {QUERIES.donde, QUERIES.puedo}
       => /\ turno.intencion = INTENT_INFORMATIVA
          /\ turno.pc = "fin"
          /\ turno.invocadas = << >>
          /\ turno.resp.used_tools = << >>

\* C8, reached: the question with the order number 20007 was answered
C8_PuedoRespondida ==
  /\ turno.query = QUERIES.puedo
  /\ NumeroEn[turno.query] = TRACKING.n20007
  /\ turno.pc = "fin"
  /\ turno.resp.success

\* C9: an article that passes the category rule, delivered at most 30 days
\* before the call and declared in a condition other than "usado", is
\* eligible with dias_restantes = 30 - days elapsed, and
\* recoleccion_prioritaria exactly when the condition is dañado_transporte,
\* recoleccion_domicilio otherwise.
C9_ElegibleConDiasRestantes ==
  (/\ VerificaArticulo
   /\ ~CategoriaExcluida
   /\ FechaLegible
   /\ Transcurridos <= 30
   /\ llamada.args.estado_producto # USADO) =>
     /\ llamada.res.es_elegible
     /\ llamada.res.dias_restantes = {30 - Transcurridos}
     /\ llamada.res.categoria_proceso =
          IF llamada.args.estado_producto = DANADO_TRANSPORTE
            THEN "recoleccion_prioritaria" ELSE "recoleccion_domicilio"

\* C9, reached: delivered 10 days before, damaged in transit: priority
\* pickup with 20 days left
C9_DanadoVeinteDias ==
  /\ VerificaArticulo
  /\ Transcurridos = 10
  /\ llamada.args.estado_producto = DANADO_TRANSPORTE
  /\ llamada.res.es_elegible
  /\ llamada.res.dias_restantes = {20}
  /\ llamada.res.categoria_proceso = "recoleccion_prioritaria"

\* C10 (as the spec states it): the order_id a turn falls back on was
\* written by a turn of the same session, never by another session's.
C10_ContextoPorSesion ==
  turno.usa_de \in {"", turno.sesion}

\* C11 (as the spec states it): a transactional turn that ends in the error
\* response of a tool that failed leaves conversation_context as it was
\* before the turn.
C11_FalloSinEscritura ==
  (/\ turno.pc = "fin"
   /\ turno.resp.response \in {MENSAJES.error_consultando, MENSAJES.error_procesando}) =>
     /\ ~turno.resp.success
     /\ ~turno.escrito

\* C12: the informational rules come first. An utterance that holds an
\* interrogative word, a consultative keyword or a question mark, or that
\* holds "puedo" / "se puede" and not "quiero", is classified informativa,
\* whatever action phrase and order number it also holds.
C12_InformativaPrimero ==
  turno.pc = "clasificada" =>
    \A c \in Combinaciones :
      (/\ turno.query = Frase(c)
       /\ c[1] # << >>
       /\ ~(/\ c[1] \in {PUEDO \o <<" ">>, SE_PUEDE \o <<" ">>}
            /\ Contains(c[2], QUIERO))) =>
        turno.intencion = INTENT_INFORMATIVA

\* C12, reached: "puedo", an action phrase and an order number
C12_PuedoIniciar ==
  /\ turno.pc = "clasificada"
  /\ turno.query = <<"p","u","e","d","o"," ","i","n","i","c","i","a","r"," ","d","e","v","o","l","u","c","i","ó","n"," ","d","e","l"," ","p","e","d","i","d","o"," ","2","0","0","0","1">>
  /\ turno.intencion = INTENT_INFORMATIVA

\* C13 (as the spec states it): an utterance with an explicit action phrase,
\* no question word and no question mark is classified devolucion, for
\* every phrase of ACCIONES_EXPLICITAS, with or without an item and an
\* order number; so are the two requests the spec gives as examples.
C13_AccionEsDevolucion ==
  turno.pc = "clasificada" =>
    /\ \A c \in Combinaciones :
         (turno.query = Frase(c) /\ c[1] = << >> /\ c[2] # << >>) =>
           turno.intencion = INTENT_DEVOLUCION
    /\ turno.query \in PARTES.ejemplos => turno.intencion = INTENT_DEVOLUCION

\* C14: an utterance with no interrogative word, consultative keyword,
\* "puedo" / "se puede", question mark or action phrase is classified
\* devolucion when it holds a run of 5 to 10 digits that stands alone as a
\* token, and informativa (the default) when it holds none: no digits, a run
\* of 4, a run of 11, or a run glued to a word.
C14_PedidoODefecto ==
  turno.pc = "clasificada" =>
    \A c \in Combinaciones :
      (/\ turno.query = Frase(c)
       /\ c[1] = << >>
       /\ c[2] = << >>
       /\ c[3] \in {<< >>, <<" ","e","l"," ","T","e","r","m","o">>, <<" ","d","e"," ","d","e","v","o","l","u","c","i","ó","n"," ","p","a","r","a">>}) =>
        turno.intencion =
          IF c[4] \in {<<" ","d","e","l"," ","p","e","d","i","d","o"," ","2","0","0","0","1">>, <<" ","2","0","0","0","2"," ","y"," ","2","0","0","0","7">>,
                      <<" ","1","2","3","4"," ","d","e","l"," ","p","e","d","i","d","o"," ","2","0","0","0","2">>, <<" ","1","2","3","4","5","6","7","8","9","0">>}
            THEN INTENT_DEVOLUCION
            ELSE INTENT_INFORMATIVA

\* C14, reached: an item and an order number, nothing else
C14_TermoDelPedido ==
  /\ turno.pc = "clasificada"
  /\ turno.query = <<" ","e","l"," ","T","e","r","m","o"," ","d","e","l"," ","p","e","d","i","d","o"," ","2","0","0","0","1">>
  /\ turno.intencion = INTENT_DEVOLUCION

\* C15 (as the spec states it): when no pattern gives a product, the
\* product_id the extractor returns is the last_product_id the context
\* held before the turn.
C15_ProductoDelContexto ==
  [][\A s \in Sesiones, q \in Consultas :
       (RunDevolucion(s, q) /\ ProductoEn[q] = None) =>
         turno'.product_id = contexto.last_product_id]_vars

\* C16: the order_id the extractor returns is the first run of 5 to 10
\* digits that stands alone as a token in the utterance (a run of 4 or 11
\* digits, or one glued to a word, is no token); with no such token it is
\* the last_order_id the context held before, and with neither it is None.
C16_PrimerNumeroOContexto ==
  [][turno'.pc = "extraida" =>
      \A c \in {<< >>} \X PARTES.acciones \X PARTES.articulos \X PARTES.numeros :
        turno'.query = Frase(c) =>
          turno'.order_id =
            IF c[4] = <<" ","d","e","l"," ","p","e","d","i","d","o"," ","2","0","0","0","1">> THEN <<"2","0","0","0","1">>
            ELSE IF c[4] \in {<<" ","2","0","0","0","2"," ","y"," ","2","0","0","0","7">>, <<" ","1","2","3","4"," ","d","e","l"," ","p","e","d","i","d","o"," ","2","0","0","0","2">>} THEN <<"2","0","0","0","2">>
            ELSE IF c[4] = <<" ","1","2","3","4","5","6","7","8","9","0">> THEN <<"1","2","3","4","5","6","7","8","9","0">>
            ELSE contexto.last_order_id]_vars

\* C16, reached: an utterance without a number, after one that named 20001
C16_TermoDelContexto ==
  /\ turno.pc = "extraida"
  /\ turno.query = <<"q","u","i","e","r","o"," ","d","e","v","o","l","v","e","r"," ","e","l"," ","T","e","r","m","o">>
  /\ turno.order_id = <<"2","0","0","0","1">>

\* C17 (as the spec states it): the used_tools of a response are exactly the
\* tools the turn invoked, in the order it invoked them (so a prefix of
\* consultar, verificar, generar, and not empty once the lookup was made).
C17_UsedToolsSonLasInvocadas ==
  turno.pc = "fin" =>
    /\ Len(turno.resp.used_tools) = Len(turno.invocadas)
    /\ \A k \in 1..Len(turno.invocadas) :
         turno.resp.used_tools[k] = turno.invocadas[k].tool

\* C18: the rma_id of every label issued is "RMA-", the four digits of the
\* year of the call, "-" and six digits, 15 characters in all; its
\* etiqueta_pdf_url is the fixed base followed by "/<rma_id>.pdf", so a
\* function of the rma_id alone.
C18_FormaDelRma ==
  (llamada.tool = T_GENERAR /\ ~llamada.res.error) =>
    LET rma == llamada.res.rma_id
    IN  /\ Len(rma) = 15
        /\ SubSeq(rma, 1, 4) = <<"R","M","A","-">>
        /\ \A k \in (5..8) \cup (10..15) : rma[k] \in Digitos
        /\ Entero(SubSeq(rma, 5, 8)) = llamada.hoy.y
        /\ rma[9] = "-"
        /\ llamada.res.etiqueta_pdf_url =
             <<"h","t","t","p","s",":","/","/","e","c","o","m","a","r","k","e","t",".","d","e","v","/","d","e","v","o","l","u","c","i","o","n","e","s","/">> \o rma \o <<".","p","d","f">>

\* C18, reached: a label issued one second after midnight
C18_UnSegundo ==
  /\ llamada.tool = T_GENERAR
  /\ ~llamada.res.error
  /\ llamada.res.rma_id = <<"R","M","A","-","2","0","2","5","-","0","0","0","0","0","1">>
  /\ llamada.res.etiqueta_pdf_url = <<"h","t","t","p","s",":","/","/","e","c","o","m","a","r","k","e","t",".","d","e","v","/","d","e","v","o","l","u","c","i","o","n","e","s","/","R","M","A","-","2","0","2","5","-","0","0","0","0","0","1",".","p","d","f">>

\* C19: no failure is fatal. Every turn that is over holds a response: the
\* error response (success = False) when a tool raised, whichever of the
\* three tools it was, and on the informative branch an answer, the canned
\* fallback when the knowledge responder fails; and after a turn that
\* failed each session can start its next turn, a question or a return.
C19_NingunFalloEsFatal ==
  turno.pc = "fin" =>
    /\ turno.resp.response \notin {"", Seguir.response}
    /\ turno.intencion = INTENT_INFORMATIVA =>
         /\ turno.resp.success
         /\ turno.resp.response \in {MENSAJES.llm, MENSAJES.fallback}
    /\ ~turno.resp.success =>
         /\ turno.resp.response \in {MENSAJES.error_consultando, MENSAJES.error_procesando}
         /\ \A s \in Sesiones :
              /\ ENABLED RunInformativa(s, QUERIES.donde)
              /\ ENABLED RunDevolucion(s, QUERIES.perfume)

\* C19, reached: the lookup and the eligibility check answered, the label
\* issuance raised, and the turn ended with the error response
C19_FalloAlGenerar ==
  /\ turno.pc = "fin"
  /\ Len(turno.invocadas) = 3
  /\ turno.invocadas[3].tool = T_GENERAR
  /\ ~turno.resp.success
  /\ turno.resp.response = MENSAJES.error_procesando

\* C20 (as the spec states it): verificar_elegibilidad_producto is invoked
\* only in a turn whose lookup found the order, with an item that is one of
\* the order's items, for an order whose status is "Entregado". When the
\* item is not in the order the reply lists the order's items; when the
\* order is not delivered the reply shows its current status and its
\* estimated delivery date; in both cases the lookup is the only tool
\* invoked.
C20_VerificaSoloEntregado ==
  LET k == IndicePedido(PEDIDOS, turno.order_id)
  IN  /\ \A n \in 1..Len(turno.invocadas) :
           turno.invocadas[n].tool = T_VERIFICAR =>
             /\ n = 2
             /\ turno.invocadas[1].tool = T_CONSULTAR
             /\ turno.invocadas[1].ok
             /\ k # 0
             /\ IndiceProducto(PEDIDOS[k].productos, turno.product_id) # 0
             /\ PEDIDOS[k].estado = "Entregado"
      /\ (turno.pc = "fin" /\ turno.resp.response = MENSAJES.producto_no_esta) =>
           /\ turno.resp.mostrado = NombresDe(PEDIDOS[k].productos)
           /\ Len(turno.invocadas) = 1
      /\ (turno.pc = "fin" /\ turno.resp.response = MENSAJES.no_entregado) =>
           /\ turno.resp.mostrado =
                <<PEDIDOS[k].estado,
                  Get(PEDIDOS[k].fecha_estimada, <<"N","o"," ","d","i","s","p","o","n","i","b","l","e">>)>>
           /\ Len(turno.invocadas) = 1

\* C21: verificar_elegibilidad_producto decides by the category rule, then
\* the window, then the declared condition, and the reason is that of the
\* first rule that fails: an excluded article delivered more than 30 days
\* ago gets the category reason, a returnable article declared used and
\* delivered more than 30 days ago gets the window reason, and the
\* condition reason appears only when category and window both pass.
C21_PrimeraReglaQueFalla ==
  /\ (VerificaArticulo /\ CategoriaExcluida) =>
        llamada.res.razon.tipo = "categoria"
  /\ (VerificaArticulo /\ ~CategoriaExcluida /\ FechaLegible
        /\ Transcurridos > 30) =>
        /\ llamada.res.razon.tipo = "plazo"
        /\ llamada.res.razon.estado = << >>
  /\ (llamada.tool = T_VERIFICAR /\ llamada.res.razon.tipo = "estado") =>
        /\ VerificaArticulo
        /\ ~CategoriaExcluida
        /\ FechaLegible
        /\ Transcurridos <= 30
        /\ llamada.args.estado_producto = USADO
        /\ llamada.res.razon.estado = USADO

\* C21, reached: a returnable article declared used, delivered more than
\* 30 days before the call, refused for the window
C21_UsadoFueraDePlazo ==
  /\ VerificaArticulo
  /\ ~CategoriaExcluida
  /\ llamada.args.estado_producto = USADO
  /\ FechaLegible
  /\ Transcurridos > 30
  /\ llamada.res.razon.tipo = "plazo"

\* C22 (as the spec states it): a return of a returnable article of a
\* delivered order whose fecha_entrega_real is null, absent, or no date of
\* the calendar, when the lookup and the verification both read the
\* directory, ends with the refusal whose reason is the invalid delivery
\* date: a successful response after exactly the two invocations.
C22_FechaInvalidaNoElegible ==
  LET k == IndicePedido(PEDIDOS, turno.order_id)
      i == IndiceProducto(PEDIDOS[k].productos, turno.product_id)
      fecha == Get(PEDIDOS[k].fecha_entrega_real, << >>)
  IN  (/\ turno.pc = "fin"
       /\ Len(turno.invocadas) >= 2
       /\ turno.invocadas[1].leido
       /\ turno.invocadas[2].leido
       /\ k # 0
       /\ PEDIDOS[k].estado = "Entregado"
       /\ i # 0
       /\ ~(PEDIDOS[k].productos[i].categoria
              \in {"Alimento perecedero", "Higiene", "Medicamentos"})
       /\ PEDIDOS[k].productos[i].dev_aceptada
       /\ (fecha = None \/ Strptime(fecha) = FechaInvalida))
      =>
      /\ turno.resp.success
      /\ turno.resp.response = MENSAJES.no_permitida
      /\ turno.resp.mostrado[1].tipo = "fecha_invalida"
      /\ Len(turno.invocadas) = 2

\* C23: a return turn whose order_id is empty asks for the number of the
\* order and invokes no tool; a return turn with an order_id and no
\* product_id invokes consultar_estado_pedido once and no other tool, and,
\* when the lookup finds the order, lists the names of the order's
\* products and asks which one.
C23_PreguntaLoQueFalta ==
  LET k == IndicePedido(PEDIDOS, turno.order_id)
  IN  (turno.intencion = INTENT_DEVOLUCION) =>
        /\ Falsy(turno.order_id) =>
             /\ turno.invocadas = << >>
             /\ turno.pc = "fin"
             /\ turno.resp.response = MENSAJES.pedir_pedido
             /\ turno.resp.used_tools = << >>
        /\ (~Falsy(turno.order_id) /\ Falsy(turno.product_id)) =>
             /\ Len(turno.invocadas) <= 1
             /\ \A n \in DOMAIN turno.invocadas :
                   turno.invocadas[n].tool = T_CONSULTAR
             /\ turno.pc \in {"consultar", "fin"}
             /\ turno.pc = "fin" => Len(turno.invocadas) = 1
             /\ (turno.pc = "fin" /\ turno.invocadas[1].ok) =>
                   /\ k # 0
                   /\ turno.resp.response = MENSAJES.cual_producto
                   /\ turno.resp.mostrado = NombresDe(PEDIDOS[k].productos)

\* C23, reached: asked to start a return of order 20007, the agent looked
\* the order up once and asks which of its three products
C23_CualDeLosTres ==
  /\ turno.pc = "fin"
  /\ turno.query = QUERIES.iniciar_20007
  /\ Falsy(turno.product_id)
  /\ Len(turno.invocadas) = 1
  /\ turno.resp.response = MENSAJES.cual_producto
  /\ Len(turno.resp.mostrado) = 3

\* C24: every run of _extraer_datos_pedido leaves in the context the order
\* number found in the utterance as last_order_id and the product found in
\* it as last_product_id; a slot for which the utterance gave nothing keeps
\* the value the context held before, and last_action is left alone.
C24_ContextoGuardaLoHallado ==
  [][turno'.pc = "extraida" =>
      /\ contexto'.last_order_id =
           IF Extraido[turno'.query].numero # << >>
             THEN Extraido[turno'.query].numero
             ELSE contexto.last_order_id
      /\ contexto'.last_product_id =
           IF turno'.product_id # None
             THEN turno'.product_id
             ELSE contexto.last_product_id
      /\ contexto'.last_action = contexto.last_action]_vars

\* C24, reached: an utterance that names an order and no product, after one
\* that named a product: the order is the new one, the product is kept
C24_ProductoRecordado ==
  /\ turno.pc = "extraida"
  /\ turno.query = <<" ","2","0","0","0","2"," ","y"," ","2","0","0","0","7">>
  /\ turno.product_id = None
  /\ contexto.last_order_id = <<"2","0","0","0","2">>
  /\ contexto.last_product_id = <<"T","e","r","m","o">>

\* C25: a turn answered by the informative branch leaves the context as it
\* was: last_order_id, last_product_id and last_action after the turn are
\* those before it, whatever the utterance names and whether the answer is
\* the LLM's or the canned one.
C25_InformativaNoEscribe ==
  [][(turno' # turno /\ turno'.intencion = INTENT_INFORMATIVA) =>
       /\ turno'.pc = "fin"
       /\ contexto' = contexto]_vars

\* C25, reached: a question that names order 20007, answered with the canned
\* text, in a context that still holds the order of an earlier return
C25_PreguntaTrasDevolucion ==
  /\ turno.pc = "fin"
  /\ turno.query = QUERIES.puedo
  /\ turno.resp.response = MENSAJES.fallback
  /\ contexto.last_order_id = TRACKING.n20002
  /\ contexto.last_product_id = NOMBRES.perfume_floral

\* C26 (as the spec states it): when the question is about a defective, a
\* damaged or a broken product, the answer given is never a generated one
\* that says the product cannot be returned ("no puedo devolver", "no
\* aceptamos devoluciones"), nor one that speaks of perishables without
\* naming defective products: such an answer is replaced by the canned
\* text.
C26_NoNiegaLosDanados ==
  LET pregunta == Lower(turno.query)
      dada == Lower(turno.resp.mostrado)
  IN  (/\ turno.pc = "respondida"
       /\ turno.resp.response = MENSAJES.llm
       /\ \/ Contains(pregunta, <<"d","e","f","e","c","t","u","o","s","o">>)
          \/ Contains(pregunta, <<"d","a","ñ","a","d","o">>)
          \/ Contains(pregunta, <<"r","o","t","o">>))
      =>
      /\ ~Contains(dada, <<"n","o"," ","p","u","e","d","o"," ","d","e","v","o","l","v","e","r">>)
      /\ ~Contains(dada, <<"n","o"," ","a","c","e","p","t","a","m","o","s"," ","d","e","v","o","l","u","c","i","o","n","e","s">>)
      /\ ~(Contains(dada, <<"p","e","r","e","c","e","d","e","r","o">>) /\ ~Contains(dada, <<"d","e","f","e","c","t","u","o","s","o">>))

\* C27 (as the spec states it): after a turn in which the agent found the
\* order and asked which product to return, the next turn, of the same
\* session, whose utterance is only the name of a product of that order, is
\* a return with the remembered order_id and that product, on its way to
\* the lookup and the verification.
C27_NombreCompletaLaDevolucion ==
  [][\A s \in Sesiones :
       (/\ turno.pc = "fin"
        /\ turno.sesion = s
        /\ turno.resp.response = MENSAJES.cual_producto
        /\ RunInformativa(s, QUERIES.solo_termo) \/ RunDevolucion(s, QUERIES.solo_termo)
        /\ \E n \in DOMAIN turno.resp.mostrado :
              turno.resp.mostrado[n] = QUERIES.solo_termo)
       =>
       /\ turno'.intencion = INTENT_DEVOLUCION
       /\ turno'.order_id = turno.order_id
       /\ turno'.product_id = QUERIES.solo_termo
       /\ turno'.pc = "consultar"]_vars

\* C28 (as the spec states it): a turn that ends with the approval reports
\* a label with an rma_id and a carrier, issued by an invocation of
\* generar_etiqueta_devolucion that found the order; when the directory
\* stops holding the order between the verification and the issuance, the
\* turn does not end with the approval.
C28_AprobadaConEtiqueta ==
  (turno.pc = "fin" /\ turno.resp.response = MENSAJES.aprobada) =>
     /\ turno.resp.success
     /\ turno.resp.rma_id # SinRma
     /\ turno.resp.mostrado # <<Nulo>>
     /\ Len(turno.invocadas) = 3
     /\ turno.invocadas[3].ok
     /\ turno.invocadas[3].leido

\* C29 (as the spec states it): every eligible verdict carries a count of
\* remaining days from 0 to 30; an article delivered exactly 30 days before
\* the call is eligible with 0 days left, and no fecha_entrega, one later
\* than the day of the call included, gives an eligible verdict with more
\* than 30 or fewer than 0.
C29_RestantesDeCeroATreinta ==
  /\ (llamada.tool = T_VERIFICAR /\ llamada.res.es_elegible) =>
        /\ llamada.res.dias_restantes # {}
        /\ \A r \in llamada.res.dias_restantes : 0 <= r /\ r <= 30
  /\ (VerificaArticulo /\ ~CategoriaExcluida /\ FechaLegible
        /\ Transcurridos = 30 /\ llamada.args.estado_producto # USADO) =>
        /\ llamada.res.es_elegible
        /\ llamada.res.dias_restantes = {0}

\* C30: every turn verifies with estado_producto "sellado", whatever the
\* utterance declares: no turn carries the process recoleccion_prioritaria
\* to the issuance of a label, no refusal of a turn has the reason of the
\* condition, and a refusal names no condition.
C30_SiempreSellado ==
  /\ turno.categoria_proceso \in {Nulo, "recoleccion_domicilio"}
  /\ (turno.pc = "generar" \/ turno.resp.response = MENSAJES.aprobada) =>
        turno.categoria_proceso = "recoleccion_domicilio"
  /\ (turno.pc = "fin" /\ turno.resp.response = MENSAJES.no_permitida) =>
        /\ turno.resp.mostrado[1].tipo # "estado"
        /\ turno.resp.mostrado[1].estado = << >>

\* C30, reached: the return of a product the utterance declares broken,
\* approved with a label for the pickup at home
C30_RotoADomicilio ==
  /\ turno.pc = "fin"
  /\ turno.query = QUERIES.termo_roto
  /\ turno.resp.response = MENSAJES.aprobada
  /\ turno.resp.rma_id # SinRma
  /\ turno.categoria_proceso = "recoleccion_domicilio"

====
